---------------------------- MODULE Spec2Model ----------------------------
(***************************************************************************)
(* Model of the bank-statement extraction pipeline:                        *)
(*   backend/app/services/parser.py     (StatementParser)                  *)
(*   backend/app/services/processor.py  (StatementProcessor)               *)
(*   backend/app/services/llm_service.py (GroqCloudService, the extractor) *)
(*                                                                         *)
(* Python strings are sequences of one-character strings, so that          *)
(* slicing, lower-casing and substring tests are computed, not assumed.    *)
(* An Optional[X] is a sequence: << >> is None, <<x>> is the value x.      *)
(***************************************************************************)
EXTENDS Integers, Sequences, FiniteSets, TLC

(***************************************************************************)
(* Strings                                                                 *)
(***************************************************************************)
UpperLetters == <<"A","B","C","D","E","F","G","H","I","J","K","L","M",
                  "N","O","P","Q","R","S","T","U","V","W","X","Y","Z">>
LowerLetters == <<"a","b","c","d","e","f","g","h","i","j","k","l","m",
                  "n","o","p","q","r","s","t","u","v","w","x","y","z">>
DigitChars == <<"0","1","2","3","4","5","6","7","8","9">>

Range(s) == { s[i] : i \in 1..Len(s) }

Min(a, b) == IF a <= b THEN a ELSE b

LowerChar(c) ==
    IF \E i \in 1..Len(UpperLetters) : UpperLetters[i] = c
    THEN LowerLetters[CHOOSE i \in 1..Len(UpperLetters) : UpperLetters[i] = c]
    ELSE c

\* str.lower()
Lower(s) == [i \in 1..Len(s) |-> LowerChar(s[i])]

\* Python's  sub in s  on strings
Contains(sub, s) ==
    \E i \in 0..(Len(s) - Len(sub)) : \A j \in 1..Len(sub) : s[i + j] = sub[j]

\* Python's  s[:n]
Take(s, n) == SubSeq(s, 1, Min(n, Len(s)))

IsDigit(c) == c \in Range(DigitChars)

DigitVal(c) == (CHOOSE i \in 1..Len(DigitChars) : DigitChars[i] = c) - 1

RECURSIVE ParseNat(_)
ParseNat(s) ==
    IF s = << >> THEN 0
    ELSE ParseNat(SubSeq(s, 1, Len(s) - 1)) * 10 + DigitVal(s[Len(s)])

RECURSIVE NatToChars(_)
NatToChars(n) ==
    IF n < 10 THEN <<DigitChars[n + 1]>>
    ELSE NatToChars(n \div 10) \o <<DigitChars[(n % 10) + 1]>>

RECURSIVE Zeros(_)
Zeros(n) == IF n <= 0 THEN << >> ELSE <<"0">> \o Zeros(n - 1)

\* zero-padded decimal of width w (the %02d / %04d of date.isoformat)
PadNat(n, w) == Zeros(w - Len(NatToChars(n))) \o NatToChars(n)

NoneStr == <<"N","o","n","e">>

(***************************************************************************)
(* JSON cell values of a transaction row.  k is the JSON kind; s is the    *)
(* text: the string itself for "str", Python's str(value) for "num", and   *)
(* empty for "null".                                                       *)
(***************************************************************************)
NullCell == [k |-> "null", s |-> << >>]
NumCell(chars) == [k |-> "num", s |-> chars]
StrCell(chars) == [k |-> "str", s |-> chars]

\* str(value)
PyStr(cell) == IF cell.k = "null" THEN NoneStr ELSE cell.s

(***************************************************************************)
(* decimal.Decimal: value = (-1)^neg * coef * 10^(-exp).  The exponent is  *)
(* kept, as Decimal keeps it: Decimal('100') and Decimal('100.00') print   *)
(* differently.                                                            *)
(***************************************************************************)
\* Decimal(text) for a text of the characters the callers can pass; << >>
\* stands for InvalidOperation
ParseDecimal(s) ==
    LET signLen == IF Len(s) > 0 /\ s[1] \in {"+", "-"} THEN 1 ELSE 0
        body    == SubSeq(s, signLen + 1, Len(s))
        dots    == { i \in 1..Len(body) : body[i] = "." }
        wellFormed ==
            /\ \A i \in 1..Len(body) : IsDigit(body[i]) \/ body[i] = "."
            /\ Cardinality(dots) <= 1
            /\ \E i \in 1..Len(body) : IsDigit(body[i])
        dot     == IF dots = {} THEN Len(body) + 1 ELSE CHOOSE i \in dots : TRUE
        intPart == SubSeq(body, 1, dot - 1)
        fracPart == SubSeq(body, dot + 1, Len(body))
    IN  IF wellFormed
        THEN << [neg  |-> (signLen = 1 /\ s[1] = "-"),
                 coef |-> ParseNat(intPart \o fracPart),
                 exp  |-> Len(fracPart)] >>
        ELSE << >>

\* str(Decimal) in the plain (non-scientific) notation
DecimalStr(d) ==
    LET digits == NatToChars(d.coef)
        padded == Zeros(d.exp + 1 - Len(digits)) \o digits
        cut    == Len(padded) - d.exp
        sign   == IF d.neg THEN <<"-">> ELSE << >>
    IN  IF d.exp = 0 THEN sign \o digits
        ELSE sign \o SubSeq(padded, 1, cut) \o <<".">>
                  \o SubSeq(padded, cut + 1, Len(padded))

\* the value with its sign kept
DecKeepsSign(d) == d

DecAbs(d) == [d EXCEPT !.neg = FALSE]
DecIsZero(d) == d.coef = 0
DecIsNegative(d) == d.neg /\ d.coef # 0

\* the characters  re.sub(r'[^\d.+-]', '', value)  keeps
KeptByAmountRegex(c) == IsDigit(c) \/ c \in {".", "+", "-"}

\* StatementParser._parse_amount
_parse_amount(value) ==
    IF value.k = "null" \/ (value.k = "str" /\ value.s = << >>) THEN << >>
    ELSE IF value.k = "num" THEN ParseDecimal(value.s)
    ELSE LET cleaned == SelectSeq(value.s, KeptByAmountRegex)
             signed  == IF "(" \in Range(value.s) /\ ")" \in Range(value.s)
                        THEN <<"-">> \o cleaned ELSE cleaned
         IN  ParseDecimal(signed)

(***************************************************************************)
(* Dates.  dateutil's parser is a library; the model covers the two        *)
(* numeric layouts the modelled documents use, YYYY-MM-DD and the          *)
(* day-first DD/MM/YYYY (or DD-MM-YYYY), with dateutil's swap when the     *)
(* day-first reading gives no month.  Any other text does not parse.       *)
(***************************************************************************)
AllDigits(s) == \A i \in 1..Len(s) : IsDigit(s[i])

ValidYMD(y, m, d) == m \in 1..12 /\ d \in 1..31 /\ y >= 1

DateParse(s) ==
    IF Len(s) # 10 THEN << >>
    ELSE IF /\ s[5] = "-" /\ s[8] = "-"
            /\ AllDigits(SubSeq(s, 1, 4) \o SubSeq(s, 6, 7) \o SubSeq(s, 9, 10))
    THEN LET y == ParseNat(SubSeq(s, 1, 4))
             m == ParseNat(SubSeq(s, 6, 7))
             d == ParseNat(SubSeq(s, 9, 10))
         IN  IF ValidYMD(y, m, d) THEN << [y |-> y, m |-> m, d |-> d] >> ELSE << >>
    ELSE IF /\ s[3] \in {"/", "-"} /\ s[6] = s[3]
            /\ AllDigits(SubSeq(s, 1, 2) \o SubSeq(s, 4, 5) \o SubSeq(s, 7, 10))
    THEN LET a == ParseNat(SubSeq(s, 1, 2))
             b == ParseNat(SubSeq(s, 4, 5))
             y == ParseNat(SubSeq(s, 7, 10))
         IN  IF ValidYMD(y, b, a) THEN << [y |-> y, m |-> b, d |-> a] >>
             ELSE IF ValidYMD(y, a, b) THEN << [y |-> y, m |-> a, d |-> b] >>
             ELSE << >>
    ELSE << >>

\* StatementParser._parse_date (a JSON value is never a date object)
_parse_date(value) ==
    IF value.k # "str" \/ value.s = << >> THEN << >> ELSE DateParse(value.s)

\* str(date)
DateStr(dt) == PadNat(dt.y, 4) \o <<"-">> \o PadNat(dt.m, 2) \o <<"-">> \o PadNat(dt.d, 2)

\* Python truthiness of a JSON cell ( if date_val: )
Truthy(cell) ==
    CASE cell.k = "null" -> FALSE
      [] cell.k = "str"  -> cell.s # << >>
      [] OTHER           -> ParseDecimal(cell.s) = << >> \/ ~DecIsZero(ParseDecimal(cell.s)[1])

(***************************************************************************)
(* Python dicts (a transaction row, a customer or bank block) keep their   *)
(* insertion order: a dict is a sequence of [key, val] with distinct keys. *)
(***************************************************************************)
HasKey(dict, key) == \E i \in 1..Len(dict) : dict[i].key = key

\* dict.get(key): None when the key is absent
Get(dict, key) ==
    IF HasKey(dict, key)
    THEN dict[CHOOSE i \in 1..Len(dict) : dict[i].key = key].val
    ELSE NullCell

\* parser.py:124-135
DEBIT_INDICATORS == <<
    <<"d","e","b","i","t">>, <<"d","r">>,
    <<"w","i","t","h","d","r","a","w","a","l">>, <<"p","a","i","d","_","o","u","t">>,
    <<"w","i","t","h","d","r","a","w","a","l","s">>, <<"w","i","t","h","d","r","a","w">> >>

CREDIT_INDICATORS == <<
    <<"c","r","e","d","i","t">>, <<"c","r">>,
    <<"d","e","p","o","s","i","t">>, <<"p","a","i","d","_","i","n">>,
    <<"d","e","p","o","s","i","t","s">> >>

DATE_COLUMNS == <<
    <<"d","a","t","e">>,
    <<"D","a","t","e">>,
    <<"D","A","T","E">>,
    <<"t","r","a","n","s","a","c","t","i","o","n","_","d","a","t","e">>,
    <<"T","r","a","n","s","a","c","t","i","o","n"," ","D","a","t","e">>,
    <<"T","R","A","N","S","A","C","T","I","O","N"," ","D","A","T","E">>,
    <<"t","x","n","_","d","a","t","e">>,
    <<"T","x","n"," ","D","a","t","e">>,
    <<"T","X","N"," ","D","A","T","E">>,
    <<"p","o","s","t","i","n","g","_","d","a","t","e">>,
    <<"P","o","s","t","i","n","g"," ","D","a","t","e">>,
    <<"P","O","S","T","I","N","G"," ","D","A","T","E">>,
    <<"v","a","l","u","e","_","d","a","t","e">>,
    <<"V","a","l","u","e"," ","D","a","t","e">>,
    <<"V","A","L","U","E"," ","D","A","T","E">>,
    <<"b","o","o","k","i","n","g","_","d","a","t","e">>,
    <<"B","o","o","k","i","n","g"," ","D","a","t","e">>,
    <<"B","O","O","K","I","N","G"," ","D","A","T","E">> >>

\* parser.py:227
DEFAULT_COLUMNS == <<
    <<"d","a","t","e">>, <<"d","e","s","c","r","i","p","t","i","o","n">>,
    <<"a","m","o","u","n","t">>, <<"b","a","l","a","n","c","e">> >>

\* parser.py:431
DESCRIPTION_MARKERS == <<
    <<"d","e","s","c">>, <<"n","a","r","r">>, <<"p","a","r","t","i","c","u","l","a","r">> >>

AMOUNT_MARKER == <<"a","m","o","u","n","t">>
BALANCE_MARKER == <<"b","a","l","a","n","c","e">>
DATE_MARKER == <<"d","a","t","e">>

\* any(indicator in col_lower for indicator in indicators)
AnyIndicatorIn(indicators, col_lower) ==
    \E i \in 1..Len(indicators) : Contains(indicators[i], col_lower)

(***************************************************************************)
(* StatementParser._extract_date                                           *)
(***************************************************************************)
\* one probe of the two loops: the key is in the row, its value is truthy
\* and parses
DateProbe(txn, col) ==
    IF HasKey(txn, col) /\ Truthy(Get(txn, col)) THEN _parse_date(Get(txn, col))
    ELSE << >>

\* the alias loop giving up at the first alias that is a key of the row
RECURSIVE DateAliasLoopFirstKey(_, _)
DateAliasLoopFirstKey(txn, i) ==
    IF i > Len(DATE_COLUMNS) THEN << >>
    ELSE IF HasKey(txn, DATE_COLUMNS[i]) THEN DateProbe(txn, DATE_COLUMNS[i])
    ELSE DateAliasLoopFirstKey(txn, i + 1)

RECURSIVE DateAliasLoop(_, _)
DateAliasLoop(txn, i) ==
    IF i > Len(DATE_COLUMNS) THEN << >>
    ELSE IF DateProbe(txn, DATE_COLUMNS[i]) # << >> THEN DateProbe(txn, DATE_COLUMNS[i])
    ELSE DateAliasLoop(txn, i + 1)

_extract_date(txn, schema) ==
    IF DateAliasLoop(txn, 1) # << >> THEN DateAliasLoop(txn, 1)
    ELSE IF schema.columns # << >> THEN DateProbe(txn, schema.columns[1])
    ELSE << >>

(***************************************************************************)
(* StatementParser._extract_amount_and_type                                *)
(***************************************************************************)
\* the first loop: the last column matching each family wins; a column
\* matching a debit indicator is never taken as the credit column
RECURSIVE IndicatorColumns(_, _, _)
IndicatorColumns(columns, i, found) ==
    IF i > Len(columns) THEN found
    ELSE LET col_lower == Lower(columns[i])
         IN  IF AnyIndicatorIn(DEBIT_INDICATORS, col_lower)
             THEN IndicatorColumns(columns, i + 1, [found EXCEPT !.debit_col = <<columns[i]>>])
             ELSE IF AnyIndicatorIn(CREDIT_INDICATORS, col_lower)
             THEN IndicatorColumns(columns, i + 1, [found EXCEPT !.credit_col = <<columns[i]>>])
             ELSE IndicatorColumns(columns, i + 1, found)

\* if debit_col:  (a column named '' is falsy; it never matches an indicator)
NonZeroAmount(opt) == opt # << >> /\ ~DecIsZero(opt[1])

NoAmount == [amount |-> << >>, transaction_type |-> "none"]

\* the loop classifying by  amount_val <= 0
RECURSIVE SignedAmountLoopZeroIsDebit(_, _, _)
SignedAmountLoopZeroIsDebit(txn, columns, i) ==
    IF i > Len(columns) THEN << >>
    ELSE LET amount_val == _parse_amount(Get(txn, columns[i]))
         IN  IF Contains(AMOUNT_MARKER, Lower(columns[i])) /\ amount_val # << >>
             THEN IF DecIsNegative(amount_val[1]) \/ DecIsZero(amount_val[1])
                  THEN << [amount |-> <<DecAbs(amount_val[1])>>, transaction_type |-> "debit"] >>
                  ELSE << [amount |-> amount_val, transaction_type |-> "credit"] >>
             ELSE SignedAmountLoopZeroIsDebit(txn, columns, i + 1)

\* Strategy 2 loop
RECURSIVE SignedAmountLoop(_, _, _)
SignedAmountLoop(txn, columns, i) ==
    IF i > Len(columns) THEN << >>
    ELSE LET amount_val == _parse_amount(Get(txn, columns[i]))
         IN  IF Contains(AMOUNT_MARKER, Lower(columns[i])) /\ amount_val # << >>
             THEN IF DecIsNegative(amount_val[1])
                  THEN << [amount |-> <<DecAbs(amount_val[1])>>, transaction_type |-> "debit"] >>
                  ELSE << [amount |-> amount_val, transaction_type |-> "credit"] >>
             ELSE SignedAmountLoop(txn, columns, i + 1)

\* the loop going through the columns from the last to the first
RECURSIVE AnyNumericLoopBackwards(_, _, _)
AnyNumericLoopBackwards(txn, columns, i) ==
    IF i > Len(columns) THEN << >>
    ELSE LET col == columns[Len(columns) + 1 - i]
         IN  IF HasKey(txn, col) /\ NonZeroAmount(_parse_amount(Get(txn, col)))
             THEN << [amount |-> <<DecAbs(_parse_amount(Get(txn, col))[1])>>,
                      transaction_type |-> "none"] >>
             ELSE AnyNumericLoopBackwards(txn, columns, i + 1)

\* Strategy 3 loop
RECURSIVE AnyNumericLoop(_, _, _)
AnyNumericLoop(txn, columns, i) ==
    IF i > Len(columns) THEN << >>
    ELSE IF HasKey(txn, columns[i]) /\ NonZeroAmount(_parse_amount(Get(txn, columns[i])))
    THEN << [amount |-> <<DecAbs(_parse_amount(Get(txn, columns[i]))[1])>>,
             transaction_type |-> "none"] >>
    ELSE AnyNumericLoop(txn, columns, i + 1)

\* the strategy looking at the credit column first
IndicatorStrategyCreditFirst(txn, columns) ==
    LET found == IndicatorColumns(columns, 1, [debit_col |-> << >>, credit_col |-> << >>])
        hasDebit  == found.debit_col # << >> /\ found.debit_col[1] # << >>
        hasCredit == found.credit_col # << >> /\ found.credit_col[1] # << >>
        debit_val  == IF hasDebit THEN _parse_amount(Get(txn, found.debit_col[1])) ELSE << >>
        credit_val == IF hasCredit THEN _parse_amount(Get(txn, found.credit_col[1])) ELSE << >>
    IN  IF hasCredit /\ NonZeroAmount(credit_val)
        THEN << [amount |-> <<DecAbs(credit_val[1])>>, transaction_type |-> "credit"] >>
        ELSE IF hasDebit /\ NonZeroAmount(debit_val)
        THEN << [amount |-> <<DecAbs(debit_val[1])>>, transaction_type |-> "debit"] >>
        ELSE << >>

\* Strategy 1 and the single-sided columns (parser.py:320-343)
IndicatorStrategy(txn, columns) ==
    LET found == IndicatorColumns(columns, 1, [debit_col |-> << >>, credit_col |-> << >>])
        hasDebit  == found.debit_col # << >> /\ found.debit_col[1] # << >>
        hasCredit == found.credit_col # << >> /\ found.credit_col[1] # << >>
        debit_val  == IF hasDebit THEN _parse_amount(Get(txn, found.debit_col[1])) ELSE << >>
        credit_val == IF hasCredit THEN _parse_amount(Get(txn, found.credit_col[1])) ELSE << >>
    IN  IF hasDebit /\ NonZeroAmount(debit_val)
        THEN << [amount |-> <<DecAbs(debit_val[1])>>, transaction_type |-> "debit"] >>
        ELSE IF hasCredit /\ NonZeroAmount(credit_val)
        THEN << [amount |-> <<DecAbs(credit_val[1])>>, transaction_type |-> "credit"] >>
        ELSE << >>

\* the strategies with the signed 'amount' column tried before the
\* debit/credit columns
_extract_amount_signed_first(txn, schema) ==
    LET columns == schema.columns
    IN  IF SignedAmountLoop(txn, columns, 1) # << >> THEN SignedAmountLoop(txn, columns, 1)[1]
        ELSE IF IndicatorStrategy(txn, columns) # << >> THEN IndicatorStrategy(txn, columns)[1]
        ELSE IF AnyNumericLoop(txn, columns, 1) # << >> THEN AnyNumericLoop(txn, columns, 1)[1]
        ELSE NoAmount

_extract_amount_and_type(txn, schema) ==
    LET columns == schema.columns
    IN  IF IndicatorStrategy(txn, columns) # << >> THEN IndicatorStrategy(txn, columns)[1]
        ELSE IF SignedAmountLoop(txn, columns, 1) # << >> THEN SignedAmountLoop(txn, columns, 1)[1]
        ELSE IF AnyNumericLoop(txn, columns, 1) # << >> THEN AnyNumericLoop(txn, columns, 1)[1]
        ELSE NoAmount

\* the row stored without its null values
NormalizeDropsNulls(txn, schema, page_num, row_idx) ==
    [data             |-> SelectSeq(txn, LAMBDA item : item.val.k # "null"),
     transaction_date |-> _extract_date(txn, schema),
     amount           |-> _extract_amount_and_type(txn, schema).amount,
     transaction_type |-> _extract_amount_and_type(txn, schema).transaction_type,
     page_number      |-> page_num,
     row_index        |-> row_idx]

(***************************************************************************)
(* StatementParser._normalize_transaction                                  *)
(***************************************************************************)
_normalize_transaction(txn, schema, page_num, row_idx) ==
    [data             |-> txn,
     transaction_date |-> _extract_date(txn, schema),
     amount           |-> _extract_amount_and_type(txn, schema).amount,
     transaction_type |-> _extract_amount_and_type(txn, schema).transaction_type,
     page_number      |-> page_num,
     row_index        |-> row_idx]

(***************************************************************************)
(* StatementParser._deduplicate_transactions                               *)
(***************************************************************************)
DESC_PREFIX_LEN == 50

\* 'desc' in key.lower() or 'narr' in key.lower() or 'particular' in key.lower()
IsDescriptionKey(key) == AnyIndicatorIn(DESCRIPTION_MARKERS, Lower(key))

\* for key in data: ... desc = str(data[key])[:50]; break
RECURSIVE DescLoop(_, _)
DescLoop(data, i) ==
    IF i > Len(data) THEN << >>
    ELSE IF IsDescriptionKey(data[i].key) THEN Take(PyStr(data[i].val), DESC_PREFIX_LEN)
    ELSE DescLoop(data, i + 1)

\* the signature with the whole description
SignatureWholeDescription(txn) ==
    LET date_str   == IF txn.transaction_date = << >> THEN NoneStr
                      ELSE DateStr(txn.transaction_date[1])
        amount_str == IF txn.amount = << >> THEN NoneStr ELSE DecimalStr(txn.amount[1])
        described  == {i \in 1..Len(txn.data) : IsDescriptionKey(txn.data[i].key)}
    IN  date_str \o <<"|">> \o amount_str \o <<"|">> \o
        (IF described = {} THEN << >>
         ELSE PyStr(txn.data[CHOOSE i \in described : \A j \in described : i <= j].val))

\* f"{date_str}|{amount_str}|{desc}"
Signature(txn) ==
    LET date_str   == IF txn.transaction_date = << >> THEN NoneStr
                      ELSE DateStr(txn.transaction_date[1])
        amount_str == IF txn.amount = << >> THEN NoneStr ELSE DecimalStr(txn.amount[1])
    IN  date_str \o <<"|">> \o amount_str \o <<"|">> \o DescLoop(txn.data, 1)

\* the loop forgetting the signatures seen whenever it skips a transaction
RECURSIVE DedupLoopForgets(_, _, _, _)
DedupLoopForgets(transactions, i, seen, deduplicated) ==
    IF i > Len(transactions) THEN deduplicated
    ELSE IF Signature(transactions[i]) \notin seen
    THEN DedupLoopForgets(transactions, i + 1, seen \cup {Signature(transactions[i])},
                          Append(deduplicated, transactions[i]))
    ELSE DedupLoopForgets(transactions, i + 1, {}, deduplicated)

RECURSIVE DedupLoop(_, _, _, _)
DedupLoop(transactions, i, seen, deduplicated) ==
    IF i > Len(transactions) THEN deduplicated
    ELSE IF Signature(transactions[i]) \notin seen
    THEN DedupLoop(transactions, i + 1, seen \cup {Signature(transactions[i])},
                   Append(deduplicated, transactions[i]))
    ELSE DedupLoop(transactions, i + 1, seen, deduplicated)

_deduplicate_transactions(transactions) ==
    IF Len(transactions) <= 1 THEN transactions
    ELSE DedupLoop(transactions, 1, {}, << >>)

(***************************************************************************)
(* normalize_currency and its table (parser.py:12-115).  The currency      *)
(* symbols are single characters, written here by name.                    *)
(***************************************************************************)
CURRENCY_MAPPING == <<
    [key |-> <<"t","a","k","a">>, code |-> <<"B","D","T">>],
    [key |-> <<"b","a","n","g","l","a","d","e","s","h"," ","t","a","k","a">>, code |-> <<"B","D","T">>],
    [key |-> <<"b","a","n","g","l","a","d","e","s","h","i"," ","t","a","k","a">>, code |-> <<"B","D","T">>],
    [key |-> <<"t","k">>, code |-> <<"B","D","T">>],
    [key |-> <<"TAKA_SIGN">>, code |-> <<"B","D","T">>],
    [key |-> <<"d","o","l","l","a","r">>, code |-> <<"U","S","D">>],
    [key |-> <<"u","s"," ","d","o","l","l","a","r">>, code |-> <<"U","S","D">>],
    [key |-> <<"u","s","d">>, code |-> <<"U","S","D">>],
    [key |-> <<"$">>, code |-> <<"U","S","D">>],
    [key |-> <<"e","u","r","o">>, code |-> <<"E","U","R">>],
    [key |-> <<"e","u","r">>, code |-> <<"E","U","R">>],
    [key |-> <<"EURO_SIGN">>, code |-> <<"E","U","R">>],
    [key |-> <<"p","o","u","n","d">>, code |-> <<"G","B","P">>],
    [key |-> <<"p","o","u","n","d"," ","s","t","e","r","l","i","n","g">>, code |-> <<"G","B","P">>],
    [key |-> <<"g","b","p">>, code |-> <<"G","B","P">>],
    [key |-> <<"POUND_SIGN">>, code |-> <<"G","B","P">>],
    [key |-> <<"r","u","p","e","e">>, code |-> <<"I","N","R">>],
    [key |-> <<"i","n","d","i","a","n"," ","r","u","p","e","e">>, code |-> <<"I","N","R">>],
    [key |-> <<"i","n","r">>, code |-> <<"I","N","R">>],
    [key |-> <<"RUPEE_SIGN">>, code |-> <<"I","N","R">>],
    [key |-> <<"y","e","n">>, code |-> <<"J","P","Y">>],
    [key |-> <<"j","a","p","a","n","e","s","e"," ","y","e","n">>, code |-> <<"J","P","Y">>],
    [key |-> <<"j","p","y">>, code |-> <<"J","P","Y">>],
    [key |-> <<"YEN_SIGN">>, code |-> <<"J","P","Y">>],
    [key |-> <<"y","u","a","n">>, code |-> <<"C","N","Y">>],
    [key |-> <<"c","h","i","n","e","s","e"," ","y","u","a","n">>, code |-> <<"C","N","Y">>],
    [key |-> <<"r","e","n","m","i","n","b","i">>, code |-> <<"C","N","Y">>],
    [key |-> <<"c","n","y">>, code |-> <<"C","N","Y">>],
    [key |-> <<"r","i","y","a","l">>, code |-> <<"S","A","R">>],
    [key |-> <<"s","a","u","d","i"," ","r","i","y","a","l">>, code |-> <<"S","A","R">>],
    [key |-> <<"s","a","r">>, code |-> <<"S","A","R">>],
    [key |-> <<"d","i","r","h","a","m">>, code |-> <<"A","E","D">>],
    [key |-> <<"u","a","e"," ","d","i","r","h","a","m">>, code |-> <<"A","E","D">>],
    [key |-> <<"a","e","d">>, code |-> <<"A","E","D">>],
    [key |-> <<"r","i","n","g","g","i","t">>, code |-> <<"M","Y","R">>],
    [key |-> <<"m","a","l","a","y","s","i","a","n"," ","r","i","n","g","g","i","t">>, code |-> <<"M","Y","R">>],
    [key |-> <<"m","y","r">>, code |-> <<"M","Y","R">>],
    [key |-> <<"b","a","h","t">>, code |-> <<"T","H","B">>],
    [key |-> <<"t","h","a","i"," ","b","a","h","t">>, code |-> <<"T","H","B">>],
    [key |-> <<"t","h","b">>, code |-> <<"T","H","B">>],
    [key |-> <<"w","o","n">>, code |-> <<"K","R","W">>],
    [key |-> <<"s","o","u","t","h"," ","k","o","r","e","a","n"," ","w","o","n">>, code |-> <<"K","R","W">>],
    [key |-> <<"k","r","w">>, code |-> <<"K","R","W">>],
    [key |-> <<"f","r","a","n","c">>, code |-> <<"C","H","F">>],
    [key |-> <<"s","w","i","s","s"," ","f","r","a","n","c">>, code |-> <<"C","H","F">>],
    [key |-> <<"c","h","f">>, code |-> <<"C","H","F">>],
    [key |-> <<"r","a","n","d">>, code |-> <<"Z","A","R">>],
    [key |-> <<"s","o","u","t","h"," ","a","f","r","i","c","a","n"," ","r","a","n","d">>, code |-> <<"Z","A","R">>],
    [key |-> <<"z","a","r">>, code |-> <<"Z","A","R">>] >>
ISO_CODES == {
    <<"U","S","D">>, <<"E","U","R">>, <<"G","B","P">>, <<"I","N","R">>,
    <<"J","P","Y">>, <<"C","N","Y">>, <<"B","D","T">>, <<"S","A","R">>,
    <<"A","E","D">>, <<"M","Y","R">>, <<"T","H","B">>, <<"K","R","W">>,
    <<"C","H","F">>, <<"Z","A","R">>, <<"P","K","R">>, <<"L","K","R">>,
    <<"N","P","R">>, <<"C","A","D">>, <<"A","U","D">>, <<"N","Z","D">>,
    <<"S","G","D">> }

DEFAULT_CURRENCY == <<"B","D","T">>

UpperChar(c) ==
    IF \E i \in 1..Len(LowerLetters) : LowerLetters[i] = c
    THEN UpperLetters[CHOOSE i \in 1..Len(LowerLetters) : LowerLetters[i] = c]
    ELSE c

\* str.upper()
Upper(s) == [i \in 1..Len(s) |-> UpperChar(s[i])]

IsSpace(c) == c = " "

\* str.strip()
RECURSIVE Strip(_)
Strip(s) ==
    IF s = << >> THEN s
    ELSE IF IsSpace(s[1]) THEN Strip(Tail(s))
    ELSE IF IsSpace(s[Len(s)]) THEN Strip(SubSeq(s, 1, Len(s) - 1))
    ELSE s

\* \w of the regular expression
IsWordChar(c) ==
    c \in Range(LowerLetters) \/ c \in Range(UpperLetters) \/ IsDigit(c) \/ c = "_"

WORD_CURRENCY == <<"c","u","r","r","e","n","c","y">>
WORD_CODE == <<"c","o","d","e">>

\* \bword\b matches at position i of s
WordAt(s, i, word) ==
    /\ i + Len(word) - 1 <= Len(s)
    /\ SubSeq(s, i, i + Len(word) - 1) = word
    /\ (i = 1 \/ ~IsWordChar(s[i - 1]))
    /\ (i + Len(word) > Len(s) \/ ~IsWordChar(s[i + Len(word)]))

\* re.sub(r'\b(currency|code)\b', '', s)
RECURSIVE RemoveCommonWords(_, _)
RemoveCommonWords(s, i) ==
    IF i > Len(s) THEN << >>
    ELSE IF WordAt(s, i, WORD_CURRENCY) THEN RemoveCommonWords(s, i + Len(WORD_CURRENCY))
    ELSE IF WordAt(s, i, WORD_CODE) THEN RemoveCommonWords(s, i + Len(WORD_CODE))
    ELSE <<s[i]>> \o RemoveCommonWords(s, i + 1)

\* for key, code in CURRENCY_MAPPING.items(): if key in cleaned or cleaned in key
RECURSIVE PartialMatchLoop(_, _)
PartialMatchLoop(cleaned, i) ==
    IF i > Len(CURRENCY_MAPPING) THEN << >>
    ELSE IF Contains(CURRENCY_MAPPING[i].key, cleaned) \/ Contains(cleaned, CURRENCY_MAPPING[i].key)
    THEN <<CURRENCY_MAPPING[i].code>>
    ELSE PartialMatchLoop(cleaned, i + 1)

\* the function taking any three-letter text as a code, without the list
\* of line 99
normalize_currency_any_code(currency_str) ==
    IF ~Truthy(currency_str) THEN DEFAULT_CURRENCY
    ELSE LET cleaned == Strip(RemoveCommonWords(Lower(Strip(PyStr(currency_str))), 1))
         IN  IF Len(cleaned) = 3 THEN Upper(cleaned)
             ELSE IF \E i \in 1..Len(CURRENCY_MAPPING) : CURRENCY_MAPPING[i].key = cleaned
             THEN CURRENCY_MAPPING[CHOOSE i \in 1..Len(CURRENCY_MAPPING) :
                                       CURRENCY_MAPPING[i].key = cleaned].code
             ELSE IF PartialMatchLoop(cleaned, 1) # << >> THEN PartialMatchLoop(cleaned, 1)[1]
             ELSE DEFAULT_CURRENCY

\* normalize_currency(currency_str) for a JSON value
normalize_currency(currency_str) ==
    IF ~Truthy(currency_str) THEN DEFAULT_CURRENCY
    ELSE LET cleaned == Strip(RemoveCommonWords(Lower(Strip(PyStr(currency_str))), 1))
         IN  IF Len(cleaned) = 3 /\ Upper(cleaned) \in ISO_CODES THEN Upper(cleaned)
             ELSE IF \E i \in 1..Len(CURRENCY_MAPPING) : CURRENCY_MAPPING[i].key = cleaned
             THEN CURRENCY_MAPPING[CHOOSE i \in 1..Len(CURRENCY_MAPPING) :
                                       CURRENCY_MAPPING[i].key = cleaned].code
             ELSE IF PartialMatchLoop(cleaned, 1) # << >> THEN PartialMatchLoop(cleaned, 1)[1]
             ELSE DEFAULT_CURRENCY

(***************************************************************************)
(* A page response, as extract_from_image returns it.  keys holds the      *)
(* top-level keys the JSON object carries; a block that is null or {} is   *)
(* the empty dict, a transaction_columns that is null is the empty list    *)
(* (the parser treats them alike), and transactions_null says the          *)
(* transactions value is JSON null, which the parser does not survive.     *)
(***************************************************************************)
REQUIRED_KEYS == <<"customer_details", "bank_details", "transactions", "transaction_columns">>

RespCustomer(response) ==
    IF "customer_details" \in response.keys THEN response.customer_details ELSE << >>

RespBank(response) ==
    IF "bank_details" \in response.keys THEN response.bank_details ELSE << >>

RespColumns(response) ==
    IF "transaction_columns" \in response.keys THEN response.transaction_columns ELSE << >>

RespTransactions(response) ==
    IF "transactions" \in response.keys THEN response.transactions ELSE << >>

TransactionsIsNull(response) ==
    "transactions" \in response.keys /\ response.transactions_null

\* StatementParser.validate_response
RECURSIVE MissingKeyErrors(_, _)
MissingKeyErrors(response, i) ==
    IF i > Len(REQUIRED_KEYS) THEN << >>
    ELSE (IF REQUIRED_KEYS[i] \in response.keys THEN << >> ELSE <<REQUIRED_KEYS[i]>>)
         \o MissingKeyErrors(response, i + 1)

\* the check returning at the first missing key
validate_response_first_missing(response) ==
    [is_valid |-> MissingKeyErrors(response, 1) = << >>,
     errors   |-> SubSeq(MissingKeyErrors(response, 1), 1, 1)]

validate_response(response) ==
    [is_valid |-> MissingKeyErrors(response, 1) = << >>,
     errors   |-> MissingKeyErrors(response, 1)]

(***************************************************************************)
(* StatementParser._merge_customer_details / _merge_bank_details           *)
(***************************************************************************)
ACCOUNT_HOLDER_NAME == <<"a","c","c","o","u","n","t","_","h","o","l","d","e","r","_","n","a","m","e">>
ACCOUNT_NUMBER == <<"a","c","c","o","u","n","t","_","n","u","m","b","e","r">>
CURRENCY_KEY == <<"c","u","r","r","e","n","c","y">>

\* the loop testing the two fields against None
RECURSIVE CustomerLoopNotNone(_, _)
CustomerLoopNotNone(responses, i) ==
    IF i > Len(responses) THEN << >>
    ELSE LET customer == RespCustomer(responses[i])
         IN  IF /\ customer # << >>
                /\ (Get(customer, ACCOUNT_HOLDER_NAME).k # "null"
                    \/ Get(customer, ACCOUNT_NUMBER).k # "null")
             THEN customer
             ELSE CustomerLoopNotNone(responses, i + 1)

RECURSIVE CustomerLoop(_, _)
CustomerLoop(responses, i) ==
    IF i > Len(responses) THEN << >>
    ELSE LET customer == RespCustomer(responses[i])
         IN  IF /\ customer # << >>
                /\ (Truthy(Get(customer, ACCOUNT_HOLDER_NAME)) \/ Truthy(Get(customer, ACCOUNT_NUMBER)))
             THEN customer
             ELSE CustomerLoop(responses, i + 1)

_merge_customer_details(responses) == CustomerLoop(responses, 1)

\* merged[key] = value
DictSet(dict, key, value) ==
    IF HasKey(dict, key)
    THEN [i \in 1..Len(dict) |-> IF dict[i].key = key THEN [key |-> key, val |-> value] ELSE dict[i]]
    ELSE Append(dict, [key |-> key, val |-> value])

\* the loop letting a later page overwrite a value
RECURSIVE BankItemsLoopOverwrites(_, _, _)
BankItemsLoopOverwrites(bank, i, merged) ==
    IF i > Len(bank) THEN merged
    ELSE IF bank[i].val.k # "null"
    THEN BankItemsLoopOverwrites(bank, i + 1, DictSet(merged, bank[i].key, bank[i].val))
    ELSE BankItemsLoopOverwrites(bank, i + 1, merged)

\* for key, value in bank.items(): ...
RECURSIVE BankItemsLoop(_, _, _)
BankItemsLoop(bank, i, merged) ==
    IF i > Len(bank) THEN merged
    ELSE IF /\ bank[i].val.k # "null"
            /\ (~HasKey(merged, bank[i].key) \/ Get(merged, bank[i].key).k = "null")
    THEN BankItemsLoop(bank, i + 1, DictSet(merged, bank[i].key, bank[i].val))
    ELSE BankItemsLoop(bank, i + 1, merged)

RECURSIVE BankLoop(_, _, _)
BankLoop(responses, i, merged) ==
    IF i > Len(responses) THEN merged
    ELSE BankLoop(responses, i + 1, BankItemsLoop(RespBank(responses[i]), 1, merged))

_merge_bank_details(responses) ==
    LET merged == BankLoop(responses, 1, << >>)
    IN  IF HasKey(merged, CURRENCY_KEY)
        THEN DictSet(merged, CURRENCY_KEY, StrCell(normalize_currency(Get(merged, CURRENCY_KEY))))
        ELSE DictSet(merged, CURRENCY_KEY, StrCell(DEFAULT_CURRENCY))

(***************************************************************************)
(* StatementParser._infer_column_type / _detect_schema                     *)
(***************************************************************************)
SAMPLE_ROWS == 5

IsNumericSample(val) ==
    val.k = "num" \/ (val.k = "str" /\ _parse_amount(val) # << >>)

_infer_column_type(column_name, sample_values) ==
    LET col_lower == Lower(column_name)
        numeric_count == Cardinality({ i \in 1..Len(sample_values) : IsNumericSample(sample_values[i]) })
    IN  IF Contains(DATE_MARKER, col_lower) THEN "date"
        ELSE IF AnyIndicatorIn(DEBIT_INDICATORS \o CREDIT_INDICATORS, col_lower) THEN "currency"
        ELSE IF Contains(BALANCE_MARKER, col_lower) \/ Contains(AMOUNT_MARKER, col_lower) THEN "currency"
        ELSE IF 2 * numeric_count > Len(sample_values) THEN "currency"
        ELSE "text"

\* the loop without its break: the last response that has columns decides
RECURSIVE ColumnsLoopNoBreak(_, _)
ColumnsLoopNoBreak(responses, i) ==
    IF i > Len(responses) THEN << >>
    ELSE IF ColumnsLoopNoBreak(responses, i + 1) # << >>
    THEN ColumnsLoopNoBreak(responses, i + 1)
    ELSE RespColumns(responses[i])

\* columns of the first response that has them
RECURSIVE ColumnsLoop(_, _)
ColumnsLoop(responses, i) ==
    IF i > Len(responses) THEN << >>
    ELSE IF RespColumns(responses[i]) # << >> THEN RespColumns(responses[i])
    ELSE ColumnsLoop(responses, i + 1)

\* sample_transactions.extend(response.get('transactions', [])[:5])
RECURSIVE SampleLoop(_, _)
SampleLoop(responses, i) ==
    IF i > Len(responses) THEN << >>
    ELSE Take(RespTransactions(responses[i]), SAMPLE_ROWS) \o SampleLoop(responses, i + 1)

_detect_schema(responses) ==
    LET detected == ColumnsLoop(responses, 1)
        columns  == IF detected = << >> THEN DEFAULT_COLUMNS ELSE detected
        sample_transactions == SampleLoop(responses, 1)
    IN  [columns |-> columns,
         column_metadata |->
            [col \in Range(columns) |->
                [type |-> _infer_column_type(col,
                              [i \in 1..Len(sample_transactions) |-> Get(sample_transactions[i], col)]),
                 display_name |-> col]]]

(***************************************************************************)
(* StatementParser.parse_and_merge                                         *)
(***************************************************************************)
\* the loop stopping after the first response
NormalizeFirstOnly(responses, schema, idx) ==
    IF idx > Len(responses) THEN << >>
    ELSE LET transactions == RespTransactions(responses[idx])
         IN  [j \in 1..Len(transactions) |->
                 _normalize_transaction(transactions[j], schema, idx, j - 1)]

\* lines 158-165: the rows of every response, in order, before deduplication;
\* idx counts the responses from 1, so it is the code's  idx + 1
RECURSIVE NormalizeLoop(_, _, _)
NormalizeLoop(responses, schema, idx) ==
    IF idx > Len(responses) THEN << >>
    ELSE LET page_number  == idx
             transactions == RespTransactions(responses[idx])
         IN  [j \in 1..Len(transactions) |->
                 _normalize_transaction(transactions[j], schema, page_number, j - 1)]
             \o NormalizeLoop(responses, schema, idx + 1)

\* the exceptions parse_and_merge lets out: ValueError on an empty list, and
\* the TypeError of slicing or iterating a transactions value that is None
ParseRaises(responses) ==
    responses = << >> \/ \E i \in 1..Len(responses) : TransactionsIsNull(responses[i])

ParseErrorText(responses) ==
    IF responses = << >> THEN "No responses to parse"
    ELSE "'NoneType' object is not subscriptable"

parse_and_merge(responses) ==
    LET schema == _detect_schema(responses)
    IN  [customer_details   |-> _merge_customer_details(responses),
         bank_details       |-> _merge_bank_details(responses),
         transaction_schema |-> schema,
         transactions       |-> _deduplicate_transactions(NormalizeLoop(responses, schema, 1))]

(***************************************************************************)
(* GroqCloudService.extract_from_image: what it returns for the JSON       *)
(* object (payload) the model answered with.                               *)
(***************************************************************************)
BANK_NAME == <<"b","a","n","k","_","n","a","m","e">>
STATEMENT_PERIOD_START == <<"s","t","a","t","e","m","e","n","t","_","p","e","r","i","o","d","_","s","t","a","r","t">>
STATEMENT_PERIOD_END == <<"s","t","a","t","e","m","e","n","t","_","p","e","r","i","o","d","_","e","n","d">>
OPENING_BALANCE == <<"o","p","e","n","i","n","g","_","b","a","l","a","n","c","e">>
CLOSING_BALANCE == <<"c","l","o","s","i","n","g","_","b","a","l","a","n","c","e">>

\* llm_service.py:14-25, the declared fields of the two Pydantic blocks
CUSTOMER_FIELDS == <<ACCOUNT_HOLDER_NAME, ACCOUNT_NUMBER>>
BANK_FIELDS == <<BANK_NAME, STATEMENT_PERIOD_START, STATEMENT_PERIOD_END,
                 OPENING_BALANCE, CLOSING_BALANCE, CURRENCY_KEY>>

\* BankStatementExtraction(**parsed) accepts the payload
PydanticValid(payload) ==
    /\ \A i \in 1..Len(REQUIRED_KEYS) : REQUIRED_KEYS[i] \in payload.keys
    /\ ~payload.transactions_null
    /\ payload.page_info

\* model_dump() of a block: the declared fields, None where absent
ModelDump(fields, dict) == [i \in 1..Len(fields) |-> [key |-> fields[i], val |-> Get(dict, fields[i])]]

\* lines 262-293: the validated dump, or the raw object flagged unvalidated
ExtractorResult(payload, page_number) ==
    IF PydanticValid(payload)
    THEN [keys                |-> payload.keys,
          customer_details    |-> ModelDump(CUSTOMER_FIELDS, payload.customer_details),
          bank_details        |-> ModelDump(BANK_FIELDS, payload.bank_details),
          transaction_columns |-> payload.transaction_columns,
          transactions        |-> payload.transactions,
          transactions_null   |-> FALSE,
          page_info           |-> TRUE,
          confidence_scores   |-> payload.confidence_scores,
          validation_errors   |-> FALSE,
          metadata            |-> [page_number |-> page_number,
                                   tokens_used |-> payload.usage.total_tokens,
                                   validated   |-> TRUE]]
    ELSE [keys                |-> payload.keys,
          customer_details    |-> payload.customer_details,
          bank_details        |-> payload.bank_details,
          transaction_columns |-> payload.transaction_columns,
          transactions        |-> payload.transactions,
          transactions_null   |-> payload.transactions_null,
          page_info           |-> payload.page_info,
          confidence_scores   |-> payload.confidence_scores,
          validation_errors   |-> TRUE,
          metadata            |-> [page_number |-> page_number,
                                   tokens_used |-> payload.usage.total_tokens,
                                   validated   |-> FALSE]]

\* lines 227-234: the counters of the service
AddUsage(totals, usage) ==
    [total_tokens_used       |-> totals.total_tokens_used + usage.total_tokens,
     total_prompt_tokens     |-> totals.total_prompt_tokens + usage.prompt_tokens,
     total_completion_tokens |-> totals.total_completion_tokens + usage.completion_tokens]

\* llm_service.py:200-202
ZeroUsage == [total_tokens_used |-> 0, total_prompt_tokens |-> 0, total_completion_tokens |-> 0]

(***************************************************************************)
(* The documents of the model: what the vision model can answer for a      *)
(* page.                                                                   *)
(***************************************************************************)
COL_DATE == <<"D","a","t","e">>
COL_DESCRIPTION == <<"D","e","s","c","r","i","p","t","i","o","n">>
COL_NARRATION == <<"N","a","r","r","a","t","i","o","n">>
COL_AMOUNT == <<"A","m","o","u","n","t">>

Cell(key, val) == [key |-> key, val |-> val]

RowAtm ==
    << Cell(COL_DATE, StrCell(<<"2","0","2","4","-","0","1","-","0","5">>)),
       Cell(COL_DESCRIPTION, StrCell(<<"A","T","M"," ","W","i","t","h","d","r","a","w","a","l">>)),
       Cell(COL_AMOUNT, NumCell(<<"-","1","0","0">>)) >>

RowSalary ==
    << Cell(COL_DATE, StrCell(<<"0","6","/","0","1","/","2","0","2","4">>)),
       Cell(COL_DESCRIPTION, StrCell(<<"S","a","l","a","r","y">>)),
       Cell(COL_AMOUNT, NumCell(<<"2","0","0","0">>)) >>

RowFee ==
    << Cell(COL_DATE, StrCell(<<"2","0","2","4","-","0","1","-","0","7">>)),
       Cell(COL_NARRATION, StrCell(<<"F","e","e">>)),
       Cell(COL_AMOUNT, StrCell(<<"(","5",".","0","0",")">>)) >>

UsageOfCall == [prompt_tokens |-> 2, completion_tokens |-> 1, total_tokens |-> 3]

\* a complete answer
PayloadFull ==
    [keys                |-> Range(REQUIRED_KEYS),
     customer_details    |-> << Cell(ACCOUNT_HOLDER_NAME, StrCell(<<"J","o","h","n">>)),
                                Cell(ACCOUNT_NUMBER, NullCell) >>,
     bank_details        |-> << Cell(BANK_NAME, StrCell(<<"S","t","a","t","e">>)),
                                Cell(STATEMENT_PERIOD_START, StrCell(<<"2","0","2","4","-","0","1","-","0","1">>)),
                                Cell(CURRENCY_KEY, StrCell(<<"T","a","k","a">>)) >>,
     transaction_columns |-> <<COL_DATE, COL_DESCRIPTION, COL_AMOUNT>>,
     transactions        |-> <<RowAtm, RowSalary>>,
     transactions_null   |-> FALSE,
     page_info           |-> TRUE,
     confidence_scores   |-> << << Cell("overall", 97), Cell("customer_details", 99),
                                Cell("bank_details", 96), Cell("transactions", 98) >> >>,
     usage               |-> UsageOfCall]

\* an answer without customer_details and transaction_columns
PayloadMissingKeys ==
    [keys                |-> {"bank_details", "transactions"},
     customer_details    |-> << >>,
     bank_details        |-> << Cell(CURRENCY_KEY, StrCell(<<"U","S","D">>)) >>,
     transaction_columns |-> << >>,
     transactions        |-> <<RowFee>>,
     transactions_null   |-> FALSE,
     page_info           |-> FALSE,
     confidence_scores   |-> << << Cell("overall", 50) >> >>,
     usage               |-> UsageOfCall]

\* an answer whose transactions value is null
PayloadNullTransactions ==
    [keys                |-> Range(REQUIRED_KEYS),
     customer_details    |-> << >>,
     bank_details        |-> << >>,
     transaction_columns |-> <<COL_DATE, COL_DESCRIPTION, COL_AMOUNT>>,
     transactions        |-> << >>,
     transactions_null   |-> TRUE,
     page_info           |-> TRUE,
     confidence_scores   |-> << >>,
     usage               |-> UsageOfCall]

\* an answer with the four required keys and no page_info
PayloadNoPageInfo ==
    [keys                |-> Range(REQUIRED_KEYS),
     customer_details    |-> << >>,
     bank_details        |-> << >>,
     transaction_columns |-> <<COL_DATE, COL_DESCRIPTION, COL_AMOUNT>>,
     transactions        |-> <<RowSalary>>,
     transactions_null   |-> FALSE,
     page_info           |-> FALSE,
     confidence_scores   |-> << >>,
     usage               |-> UsageOfCall]

Payloads == {PayloadFull, PayloadMissingKeys, PayloadNullTransactions}

\* the answers of the documents given to one processor after the other
ProcessorPayloads == Payloads \cup {PayloadNoPageInfo}

\* the extractor's exceptions: the API call failed after its retries, or the
\* answer was not JSON (raised after the token counters were updated)
ExtractorErrors == {"api_failed", "invalid_json"}

\* str(e): the message names the page
ErrorText(kind, page_number) == [kind |-> kind, page |-> page_number]

(***************************************************************************)
(* The store.  db is what is committed; session is the SQLAlchemy session  *)
(* of the run: the statement object as the code has set it, the objects    *)
(* added and not yet committed, and whether its transaction is usable (a   *)
(* commit whose flush fails rolls the transaction back and leaves the      *)
(* session unusable until rollback(), which process_statement never        *)
(* calls).                                                                 *)
(***************************************************************************)
EmptyLedger == [customer |-> << >>, bank |-> << >>, schema |-> << >>, transactions |-> << >>]

\* models.py:9-33, a statement as upload_statement creates it
NewStatement ==
    [processing_status   |-> "pending",
     error_message       |-> "",
     page_count          |-> << >>,
     raw_extraction_data |-> << >>,
     token_usage         |-> << >>,
     processing_logs     |-> << >>,
     confidence_scores   |-> << >>,
     validation_errors   |-> {}]

LedgerAdd(ledger, pending) ==
    [customer     |-> ledger.customer \o pending.customer,
     bank         |-> ledger.bank \o pending.bank,
     schema       |-> ledger.schema \o pending.schema,
     transactions |-> ledger.transactions \o pending.transactions]

\* models.py: statement_id is unique in customer_details, bank_details and
\* transaction_schemas
UniqueViolation(ledger, pending) ==
    \/ Len(ledger.customer \o pending.customer) > 1
    \/ Len(ledger.bank \o pending.bank) > 1
    \/ Len(ledger.schema \o pending.schema) > 1

\* db.session.commit() succeeds
CommitSucceeds(sess, database, store_error) ==
    sess.active /\ ~store_error /\ ~UniqueViolation(database.ledger, sess.pending)

Committed(sess, database) ==
    [statement |-> sess.statement, ledger |-> LedgerAdd(database.ledger, sess.pending)]

\* dict without the popped keys
DictWithout(dict, keys) == SelectSeq(dict, LAMBDA item : item.key \notin keys)

\* datetime.strptime(value, '%Y-%m-%d').date() under  if value and isinstance(value, str)
PeriodDate(value) ==
    IF value.k = "str" /\ value.s # << >>
    THEN IF Len(value.s) = 10 /\ value.s[5] = "-" /\ value.s[8] = "-" /\ DateParse(value.s) # << >>
         THEN [k |-> "date", s |-> DateStr(DateParse(value.s)[1])]
         ELSE NullCell
    ELSE value

\* StatementProcessor._save_to_database, up to its commit: the objects added
SavedObjects(parsed) ==
    [customer |->
        IF parsed.customer_details = << >> THEN << >>
        ELSE << [account_holder_name |-> Get(parsed.customer_details, ACCOUNT_HOLDER_NAME),
                 account_number      |-> Get(parsed.customer_details, ACCOUNT_NUMBER),
                 additional_info     |-> DictWithout(parsed.customer_details,
                                                     {ACCOUNT_HOLDER_NAME, ACCOUNT_NUMBER})] >>,
     bank |->
        IF parsed.bank_details = << >> THEN << >>
        ELSE << [bank_name              |-> Get(parsed.bank_details, BANK_NAME),
                 statement_period_start |-> PeriodDate(Get(parsed.bank_details, STATEMENT_PERIOD_START)),
                 statement_period_end   |-> PeriodDate(Get(parsed.bank_details, STATEMENT_PERIOD_END)),
                 opening_balance        |-> Get(parsed.bank_details, OPENING_BALANCE),
                 closing_balance        |-> Get(parsed.bank_details, CLOSING_BALANCE),
                 currency               |-> IF HasKey(parsed.bank_details, CURRENCY_KEY)
                                            THEN Get(parsed.bank_details, CURRENCY_KEY)
                                            ELSE StrCell(DEFAULT_CURRENCY),
                 additional_info        |-> DictWithout(parsed.bank_details, Range(BANK_FIELDS))] >>,
     schema |->
        << [columns         |-> parsed.transaction_schema.columns,
            column_metadata |-> parsed.transaction_schema.column_metadata] >>,
     transactions |-> parsed.transactions]

(***************************************************************************)
(* StatementProcessor._extract_confidence_scores.  A score is held in      *)
(* hundredths (0.95 is 95) and a quotient as the pair of its numerator and *)
(* denominator.                                                            *)
(***************************************************************************)
SCORE_NAMES == <<"overall", "customer_details", "bank_details", "transactions">>

\* dict.get(name, default) of a confidence_scores dict
ScoreGet(scores, name, default) ==
    IF HasKey(scores, name) THEN Get(scores, name) ELSE default

\* processor.py:240-243: the dicts of the responses that have a non-empty one
RECURSIVE ScoresLoop(_, _)
ScoresLoop(responses, i) ==
    IF i > Len(responses) THEN << >>
    ELSE LET scores == responses[i].confidence_scores
         IN  (IF scores # << >> /\ scores[1] # << >> THEN <<scores[1]>> ELSE << >>)
             \o ScoresLoop(responses, i + 1)

\* sum(s.get(name, 0) for s in all_scores)
RECURSIVE ScoreSum(_, _, _)
ScoreSum(all_scores, name, i) ==
    IF i > Len(all_scores) THEN 0
    ELSE ScoreGet(all_scores[i], name, 0) + ScoreSum(all_scores, name, i + 1)

\* min(...) and max(...) of lines 259-260
MinOverall(all_scores) ==
    CHOOSE m \in {ScoreGet(all_scores[i], "overall", 100) : i \in 1..Len(all_scores)} :
        \A i \in 1..Len(all_scores) : m <= ScoreGet(all_scores[i], "overall", 100)

MaxOverall(all_scores) ==
    CHOOSE m \in {ScoreGet(all_scores[i], "overall", 0) : i \in 1..Len(all_scores)} :
        \A i \in 1..Len(all_scores) : m >= ScoreGet(all_scores[i], "overall", 0)

\* processor.py:236-261; the empty dict of line 246 is << >>
_extract_confidence_scores(responses) ==
    LET all_scores == ScoresLoop(responses, 1)
    IN  IF all_scores = << >> THEN << >>
        ELSE << [average     |-> [i \in 1..Len(SCORE_NAMES) |->
                                     [key |-> SCORE_NAMES[i],
                                      val |-> [num |-> ScoreSum(all_scores, SCORE_NAMES[i], 1),
                                               den |-> Len(all_scores)]]],
                 by_page     |-> all_scores,
                 min_overall |-> MinOverall(all_scores),
                 max_overall |-> MaxOverall(all_scores)] >>

(***************************************************************************)
(* StatementProcessor.process_statement as a state machine                 *)
(***************************************************************************)
MaxPages == 2
MaxRuns == 2

VARIABLES
    db,                     \* the committed store: the statement row and its ledger
    session,                \* db.session of the running call
    llm_totals,             \* the token counters of the processor's GroqCloudService
    doc_pages,              \* the number of pages of the uploaded PDF
    pc,                     \* where process_statement is
    images,                 \* page numbers returned by extract_images
    page_idx,               \* position of the page loop in images
    llm_responses,
    processing_logs,
    all_validation_errors,  \* the pages that have a 'page_N' entry
    parsed_data,            \* Optional: the result of parse_and_merge
    result,                 \* what the last call returned
    runs,                   \* process_statement calls so far
    calls,                  \* history: the pages passed to the extractor, in call order
    page_results,           \* history: per call, what the extractor did
    merge_calls,            \* history: parse_and_merge invocations of the run
    all_transactions,       \* history: parse_and_merge's list before deduplication
    ledger_at_start,        \* history: the committed ledger when the run began
    fn_in,                  \* input of the function under test (function specifications)
    fn_out                  \* its result, once applied

pipeline_vars ==
    <<db, session, llm_totals, doc_pages, pc, images, page_idx, llm_responses,
      processing_logs, all_validation_errors, parsed_data, result, runs, calls,
      page_results, merge_calls, all_transactions, ledger_at_start>>

fn_vars == <<fn_in, fn_out>>

vars == <<pipeline_vars, fn_vars>>

run_locals ==
    <<images, page_idx, llm_responses, processing_logs, all_validation_errors,
      parsed_data, calls, page_results, merge_calls, all_transactions>>

PipelineInit ==
    /\ db = [statement |-> NewStatement, ledger |-> EmptyLedger]
    /\ session = [active |-> TRUE, statement |-> NewStatement, pending |-> EmptyLedger]
    /\ llm_totals = ZeroUsage
    /\ pc = "idle"
    /\ images = << >>
    /\ page_idx = 1
    /\ llm_responses = << >>
    /\ processing_logs = << >>
    /\ all_validation_errors = {}
    /\ parsed_data = << >>
    /\ result = "none"
    /\ runs = 0
    /\ calls = << >>
    /\ page_results = << >>
    /\ merge_calls = 0
    /\ all_transactions = << >>
    /\ ledger_at_start = EmptyLedger

Init ==
    /\ PipelineInit
    /\ doc_pages \in 0..MaxPages
    /\ fn_in = << >>
    /\ fn_out = << >>

\* lines 146-152: the except branch of process_statement.  Its commit raises
\* when the session's transaction was rolled back by a failed flush; the
\* exception then leaves process_statement.
Handler(sess, error_text) ==
    LET failed == [sess EXCEPT !.statement.processing_status = "failed",
                               !.statement.error_message = error_text]
    IN  /\ IF CommitSucceeds(failed, db, FALSE)
           THEN /\ db' = Committed(failed, db)
                /\ session' = [failed EXCEPT !.pending = EmptyLedger]
                /\ result' = "false"
           ELSE /\ db' = db
                /\ session' = [failed EXCEPT !.active = FALSE]
                /\ result' = "raised"
        /\ pc' = "done"

\* lines 40-50 (called from process_statement_sync, which builds a new
\* StatementProcessor inside a new application context)
Start ==
    /\ pc = "idle"
    /\ runs < MaxRuns
    /\ LET sess == [active    |-> TRUE,
                    statement |-> [db.statement EXCEPT !.processing_status = "processing"],
                    pending   |-> EmptyLedger]
       IN  /\ session' = sess
           /\ db' = Committed(sess, db)
    /\ llm_totals' = ZeroUsage
    /\ pc' = "extract_images"
    /\ images' = << >>
    /\ page_idx' = 1
    /\ llm_responses' = << >>
    /\ processing_logs' = << >>
    /\ all_validation_errors' = {}
    /\ parsed_data' = << >>
    /\ calls' = << >>
    /\ page_results' = << >>
    /\ merge_calls' = 0
    /\ all_transactions' = << >>
    /\ result' = "none"
    /\ runs' = runs + 1
    /\ ledger_at_start' = db.ledger
    /\ UNCHANGED <<doc_pages, fn_vars>>

\* lines 40-43: no statement has the id
NotFound ==
    /\ pc = "idle"
    /\ result' = "false"
    /\ UNCHANGED <<db, session, llm_totals, doc_pages, pc, runs, run_locals,
                   ledger_at_start, fn_vars>>

\* lines 53-57
ExtractImages ==
    /\ pc = "extract_images"
    /\ images' = [i \in 1..doc_pages |-> i]
    /\ LET sess == [session EXCEPT !.statement.page_count = <<doc_pages>>]
       IN  /\ session' = sess
           /\ db' = Committed(sess, db)
    /\ page_idx' = 1
    /\ pc' = "page_loop"
    /\ UNCHANGED <<llm_totals, doc_pages, llm_responses, processing_logs,
                   all_validation_errors, parsed_data, result, runs, calls,
                   page_results, merge_calls, all_transactions, ledger_at_start,
                   fn_vars>>

\* line 54 raises (pdf_processor.py:40-41, 54-55)
ExtractImagesRaises ==
    /\ pc = "extract_images"
    /\ Handler(session, "PDF file not found")
    /\ UNCHANGED <<llm_totals, doc_pages, runs, run_locals, ledger_at_start, fn_vars>>

\* the loop keeping only the responses that passed validation
PageReturnsSkipsInvalid(payload) ==
    /\ pc = "page_loop"
    /\ page_idx <= Len(images)
    /\ LET page_number == images[page_idx]
           response    == ExtractorResult(payload, page_number)
       IN  /\ llm_totals' = AddUsage(llm_totals, payload.usage)
           /\ processing_logs' = Append(processing_logs,
                  [page              |-> page_number,
                   action            |-> "processing_page",
                   status            |-> "success",
                   tokens_used       |-> response.metadata.tokens_used,
                   validated         |-> response.metadata.validated,
                   validation_errors |-> response.validation_errors,
                   error             |-> << >>])
           /\ all_validation_errors' =
                  IF response.validation_errors
                  THEN all_validation_errors \cup {page_number}
                  ELSE all_validation_errors
           /\ llm_responses' = IF response.validation_errors THEN llm_responses
                               ELSE Append(llm_responses, response)
           /\ calls' = Append(calls, page_number)
           /\ page_results' = Append(page_results,
                  [page |-> page_number, returned |-> TRUE, payload |-> <<payload>>,
                   kind |-> "none"])
    /\ page_idx' = page_idx + 1
    /\ UNCHANGED <<db, session, doc_pages, pc, images, parsed_data, result, runs,
                   merge_calls, all_transactions, ledger_at_start, fn_vars>>

\* lines 64-97: the extractor returns for the page
PageReturns(payload) ==
    /\ pc = "page_loop"
    /\ page_idx <= Len(images)
    /\ LET page_number == images[page_idx]
           response    == ExtractorResult(payload, page_number)
       IN  /\ llm_totals' = AddUsage(llm_totals, payload.usage)
           /\ processing_logs' = Append(processing_logs,
                  [page              |-> page_number,
                   action            |-> "processing_page",
                   status            |-> "success",
                   tokens_used       |-> response.metadata.tokens_used,
                   validated         |-> response.metadata.validated,
                   validation_errors |-> response.validation_errors,
                   error             |-> << >>])
           /\ all_validation_errors' =
                  IF response.validation_errors
                  THEN all_validation_errors \cup {page_number}
                  ELSE all_validation_errors
           /\ llm_responses' = Append(llm_responses, response)
           /\ calls' = Append(calls, page_number)
           /\ page_results' = Append(page_results,
                  [page |-> page_number, returned |-> TRUE, payload |-> <<payload>>,
                   kind |-> "none"])
    /\ page_idx' = page_idx + 1
    /\ UNCHANGED <<db, session, doc_pages, pc, images, parsed_data, result, runs,
                   merge_calls, all_transactions, ledger_at_start, fn_vars>>

\* the page loop without its try/except: the exception reaches lines 146-152
PageRaisesUncaught(kind) ==
    /\ pc = "page_loop"
    /\ page_idx <= Len(images)
    /\ calls' = Append(calls, images[page_idx])
    /\ page_results' = Append(page_results,
           [page |-> images[page_idx], returned |-> FALSE, payload |-> << >>,
            kind |-> kind])
    /\ page_idx' = page_idx + 1
    /\ Handler(session, "extraction failed")
    /\ UNCHANGED <<llm_totals, doc_pages, runs, images, llm_responses, processing_logs,
                   all_validation_errors, parsed_data, merge_calls, all_transactions,
                   ledger_at_start, fn_vars>>

\* the except branch without its log record
PageRaisesUnlogged(kind) ==
    /\ pc = "page_loop"
    /\ page_idx <= Len(images)
    /\ LET page_number == images[page_idx]
       IN  /\ llm_totals' = IF kind = "invalid_json" THEN AddUsage(llm_totals, UsageOfCall)
                            ELSE llm_totals
           /\ calls' = Append(calls, page_number)
           /\ page_results' = Append(page_results,
                  [page |-> page_number, returned |-> FALSE, payload |-> << >>,
                   kind |-> kind])
    /\ page_idx' = page_idx + 1
    /\ UNCHANGED <<db, session, doc_pages, pc, images, llm_responses, processing_logs,
                   all_validation_errors, parsed_data, result, runs, merge_calls,
                   all_transactions, ledger_at_start, fn_vars>>

\* lines 98-108: the extractor raises for the page
PageRaises(kind) ==
    /\ pc = "page_loop"
    /\ page_idx <= Len(images)
    /\ LET page_number == images[page_idx]
       IN  /\ llm_totals' = IF kind = "invalid_json" THEN AddUsage(llm_totals, UsageOfCall)
                            ELSE llm_totals
           /\ processing_logs' = Append(processing_logs,
                  [page              |-> page_number,
                   action            |-> "processing_page",
                   status            |-> "error",
                   tokens_used       |-> 0,
                   validated         |-> FALSE,
                   validation_errors |-> FALSE,
                   error             |-> <<ErrorText(kind, page_number)>>])
           /\ calls' = Append(calls, page_number)
           /\ page_results' = Append(page_results,
                  [page |-> page_number, returned |-> FALSE, payload |-> << >>,
                   kind |-> kind])
    /\ page_idx' = page_idx + 1
    /\ UNCHANGED <<db, session, doc_pages, pc, images, llm_responses,
                   all_validation_errors, parsed_data, result, runs, merge_calls,
                   all_transactions, ledger_at_start, fn_vars>>

\* the run without the check of lines 110-111: it goes on to its last commit
NoUsablePagesCompletes ==
    /\ pc = "page_loop"
    /\ page_idx > Len(images)
    /\ llm_responses = << >>
    /\ LET done == [session EXCEPT !.statement.processing_status = "completed"]
       IN  /\ session' = done
           /\ db' = Committed(done, db)
    /\ result' = "true"
    /\ pc' = "done"
    /\ UNCHANGED <<llm_totals, doc_pages, runs, run_locals, ledger_at_start, fn_vars>>

\* lines 110-111
NoUsablePages ==
    /\ pc = "page_loop"
    /\ page_idx > Len(images)
    /\ llm_responses = << >>
    /\ Handler(session, "Failed to process any pages successfully")
    /\ UNCHANGED <<llm_totals, doc_pages, runs, run_locals, ledger_at_start, fn_vars>>

\* line 114 raises
MergeRaises ==
    /\ pc = "page_loop"
    /\ page_idx > Len(images)
    /\ llm_responses # << >>
    /\ ParseRaises(llm_responses)
    /\ merge_calls' = merge_calls + 1
    /\ Handler(session, ParseErrorText(llm_responses))
    /\ UNCHANGED <<llm_totals, doc_pages, runs, images, page_idx, llm_responses,
                   processing_logs, all_validation_errors, parsed_data, calls,
                   page_results, all_transactions, ledger_at_start, fn_vars>>

\* the merge started as soon as one response is there
MergeEarly ==
    /\ pc = "page_loop"
    /\ llm_responses # << >>
    /\ ~ParseRaises(llm_responses)
    /\ merge_calls' = merge_calls + 1
    /\ parsed_data' = <<parse_and_merge(llm_responses)>>
    /\ all_transactions' = NormalizeLoop(llm_responses, _detect_schema(llm_responses), 1)
    /\ session' = [session EXCEPT
           !.statement.raw_extraction_data = llm_responses,
           !.statement.token_usage = <<llm_totals>>,
           !.statement.processing_logs = processing_logs]
    /\ pc' = "save"
    /\ UNCHANGED <<db, llm_totals, doc_pages, result, runs, images, page_idx,
                   llm_responses, processing_logs, all_validation_errors, calls,
                   page_results, ledger_at_start, fn_vars>>

\* lines 113-127
Merge ==
    /\ pc = "page_loop"
    /\ page_idx > Len(images)
    /\ llm_responses # << >>
    /\ ~ParseRaises(llm_responses)
    /\ merge_calls' = merge_calls + 1
    /\ parsed_data' = <<parse_and_merge(llm_responses)>>
    /\ all_transactions' = NormalizeLoop(llm_responses, _detect_schema(llm_responses), 1)
    /\ session' = [session EXCEPT
           !.statement.raw_extraction_data = llm_responses,
           !.statement.token_usage = <<llm_totals>>,
           !.statement.confidence_scores = <<_extract_confidence_scores(llm_responses)>>,
           !.statement.processing_logs = processing_logs,
           !.statement.validation_errors =
               IF all_validation_errors # {} THEN all_validation_errors ELSE @]
    /\ pc' = "save"
    /\ UNCHANGED <<db, llm_totals, doc_pages, result, runs, images, page_idx,
                   llm_responses, processing_logs, all_validation_errors, calls,
                   page_results, ledger_at_start, fn_vars>>

\* lines 129-144: the ledger is committed, then the status
Save ==
    /\ pc = "save"
    /\ LET added == [session EXCEPT !.pending = SavedObjects(parsed_data[1])]
           done  == [added EXCEPT !.pending = EmptyLedger,
                                  !.statement.processing_status = "completed"]
       IN  /\ CommitSucceeds(added, db, FALSE)
           /\ db' = Committed(done, Committed(added, db))
           /\ session' = done
    /\ result' = "true"
    /\ pc' = "done"
    /\ UNCHANGED <<llm_totals, doc_pages, runs, run_locals, ledger_at_start, fn_vars>>

\* line 234 raises: the store rejects the flush (store_error), or a unique
\* constraint is violated; the flush is rolled back and the handler runs
SaveRaises(store_error) ==
    /\ pc = "save"
    /\ LET added == [session EXCEPT !.pending = SavedObjects(parsed_data[1])]
       IN  /\ ~CommitSucceeds(added, db, store_error)
           /\ Handler([added EXCEPT !.active = FALSE], "commit failed")
    /\ UNCHANGED <<llm_totals, doc_pages, runs, run_locals, ledger_at_start, fn_vars>>

\* process_statement_sync returns (lines 272-279): the application context
\* ends, its session and the StatementProcessor of the call are discarded
Return ==
    /\ pc = "done"
    /\ pc' = "idle"
    /\ session' = [active |-> TRUE, statement |-> db.statement, pending |-> EmptyLedger]
    /\ images' = << >>
    /\ page_idx' = 1
    /\ llm_responses' = << >>
    /\ processing_logs' = << >>
    /\ all_validation_errors' = {}
    /\ parsed_data' = << >>
    /\ calls' = << >>
    /\ page_results' = << >>
    /\ merge_calls' = 0
    /\ all_transactions' = << >>
    /\ llm_totals' = ZeroUsage
    /\ result' = "none"
    /\ ledger_at_start' = EmptyLedger
    /\ UNCHANGED <<db, doc_pages, runs, fn_vars>>

Next ==
    \/ Start
    \/ NotFound
    \/ ExtractImages
    \/ ExtractImagesRaises
    \/ \E payload \in Payloads : PageReturns(payload)
    \/ \E kind \in ExtractorErrors : PageRaises(kind)
    \/ NoUsablePages
    \/ MergeRaises
    \/ Merge
    \/ Save
    \/ \E store_error \in BOOLEAN : SaveRaises(store_error)
    \/ Return

Spec == Init /\ [][Next]_vars

(***************************************************************************)
(* _deduplicate_transactions applied to bounded inputs                     *)
(***************************************************************************)
MaxLen == 3

Rep(c, n) == [i \in 1..n |-> c]

\* descriptions longer than the signature's prefix: the first two differ in
\* character 51 only, the third differs from them in character 50
LongDescriptionA == Rep("x", 50) \o <<"a">>
LongDescriptionB == Rep("x", 50) \o <<"b">>
LongDescriptionC == Rep("x", 49) \o <<"c", "d">>

RowLong(description) ==
    << Cell(COL_DATE, StrCell(<<"2","0","2","4","-","0","1","-","0","5">>)),
       Cell(COL_DESCRIPTION, StrCell(description)),
       Cell(COL_AMOUNT, NumCell(<<"-","1","0","0">>)) >>

\* a row without a date and without a description-like field
RowBare == << Cell(COL_AMOUNT, NumCell(<<"-","1","0","0">>)) >>

DedupSchema == _detect_schema(<<ExtractorResult(PayloadFull, 1)>>)

\* normalized transactions as parse_and_merge hands them over
DedupTransactions ==
    { _normalize_transaction(RowAtm, DedupSchema, 1, 0),
      _normalize_transaction(RowAtm, DedupSchema, 2, 0),
      _normalize_transaction(RowLong(LongDescriptionA), DedupSchema, 1, 1),
      _normalize_transaction(RowLong(LongDescriptionB), DedupSchema, 2, 1),
      _normalize_transaction(RowLong(LongDescriptionC), DedupSchema, 2, 2),
      _normalize_transaction(RowBare, DedupSchema, 3, 0) }

SeqsUpTo(S, n) == UNION {[1..k -> S] : k \in 0..n}

InitDedup ==
    /\ PipelineInit
    /\ doc_pages = 0
    /\ fn_in \in {<<transactions>> : transactions \in SeqsUpTo(DedupTransactions, MaxLen)}
    /\ fn_out = << >>

ApplyDedup ==
    /\ fn_in # << >>
    /\ fn_out = << >>
    /\ fn_out' = <<_deduplicate_transactions(fn_in[1])>>
    /\ UNCHANGED <<pipeline_vars, fn_in>>

NextDedup == ApplyDedup

SpecDedup == InitDedup /\ [][NextDedup]_vars

(***************************************************************************)
(* _normalize_transaction applied to bounded rows and schemas, followed by *)
(* the deduplication of parse_and_merge                                    *)
(***************************************************************************)
COL_DEBIT == <<"D", "e", "b", "i", "t">>
COL_CREDIT == <<"C", "r", "e", "d", "i", "t">>
COL_BALANCE == <<"B", "a", "l", "a", "n", "c", "e">>
COL_WITHDRAWALS == <<"W", "i", "t", "h", "d", "r", "a", "w", "a", "l", "s">>
COL_DEPOSITS == <<"D", "e", "p", "o", "s", "i", "t", "s">>
COL_REF == <<"R", "e", "f">>
COL_VALUE == <<"V", "a", "l", "u", "e">>

\* a value of a row, or the key missing from the row
ABSENT == [k |-> "absent", s |-> << >>]

CellValues ==
    { ABSENT, NullCell, StrCell(<< >>), StrCell(<<"a", "b", "c">>),
      NumCell(<<"-", "5", "0">>), NumCell(<<"5", "0">>), NumCell(<<"0">>),
      StrCell(<<"1", ",", "2", "5", "0", ".", "5", "0">>), StrCell(<<"(", "5", ".", "0", "0", ")">>), StrCell(<<"-", "0", ".", "0", "0">>) }

DateValues == { StrCell(<<"2", "0", "2", "4", "-", "0", "1", "-", "0", "5">>), StrCell(<<"0", "6", "/", "0", "1", "/", "2", "0", "2", "4">>) }

\* schemas and, for each, the two columns whose values vary and the cells
\* every row has
NormalizeCases ==
    { [columns |-> <<COL_DATE, COL_DESCRIPTION, COL_DEBIT, COL_CREDIT, COL_BALANCE>>,
       a |-> COL_DEBIT, b |-> COL_CREDIT, fixed |-> << >>],
      [columns |-> <<COL_DATE, COL_DEBIT, COL_CREDIT, COL_AMOUNT>>,
       a |-> COL_DEBIT, b |-> COL_CREDIT,
       fixed |-> <<Cell(COL_AMOUNT, NumCell(<<"-", "7">>))>>],
      [columns |-> <<COL_DATE, COL_AMOUNT, COL_BALANCE>>,
       a |-> COL_AMOUNT, b |-> COL_BALANCE, fixed |-> << >>],
      [columns |-> <<COL_DATE, COL_WITHDRAWALS, COL_AMOUNT>>,
       a |-> COL_WITHDRAWALS, b |-> COL_AMOUNT, fixed |-> << >>],
      [columns |-> <<COL_DATE, COL_DEPOSITS, COL_AMOUNT>>,
       a |-> COL_DEPOSITS, b |-> COL_AMOUNT, fixed |-> << >>],
      [columns |-> <<COL_DATE, COL_REF, COL_VALUE>>,
       a |-> COL_REF, b |-> COL_VALUE, fixed |-> << >>],
      [columns |-> << >>,
       a |-> COL_AMOUNT, b |-> COL_BALANCE, fixed |-> << >>] }

OptionalCell(key, val) == IF val = ABSENT THEN << >> ELSE <<Cell(key, val)>>

NormalizeRow(case, date, va, vb) ==
    <<Cell(COL_DATE, date)>> \o OptionalCell(case.a, va) \o OptionalCell(case.b, vb)
    \o case.fixed

NormalizeInputs ==
    { [txn    |-> NormalizeRow(case, date, va, vb),
       schema |-> [columns |-> case.columns]] :
          case \in NormalizeCases, date \in DateValues, va \in CellValues, vb \in CellValues }

InitNormalize ==
    /\ PipelineInit
    /\ doc_pages = 0
    /\ fn_in \in {<<input>> : input \in NormalizeInputs}
    /\ fn_out = << >>

\* parser.py:156-166 for two pages that both hold the row
ApplyNormalize ==
    /\ fn_in # << >>
    /\ fn_out = << >>
    /\ LET first  == _normalize_transaction(fn_in[1].txn, fn_in[1].schema, 1, 0)
           second == _normalize_transaction(fn_in[1].txn, fn_in[1].schema, 2, 0)
       IN  fn_out' = <<[normalized   |-> first,
                        deduplicated |-> _deduplicate_transactions(<<first, second>>)]>>
    /\ UNCHANGED <<pipeline_vars, fn_in>>

NextNormalize == ApplyNormalize

SpecNormalize == InitNormalize /\ [][NextNormalize]_vars

(***************************************************************************)
(* _detect_schema, _merge_customer_details and _merge_bank_details applied *)
(* to bounded lists of page responses                                      *)
(***************************************************************************)
MaxResponses == 2

ADDRESS == <<"a", "d", "d", "r", "e", "s", "s">>

CustomerBlank ==
    << Cell(ACCOUNT_HOLDER_NAME, StrCell(<< >>)), Cell(ACCOUNT_NUMBER, NullCell) >>

CustomerJohn ==
    << Cell(ACCOUNT_HOLDER_NAME, StrCell(<<"J", "o", "h", "n">>)), Cell(ACCOUNT_NUMBER, NullCell) >>

CustomerNumber ==
    << Cell(ACCOUNT_HOLDER_NAME, NullCell), Cell(ACCOUNT_NUMBER, StrCell(<<"1", "2", "3">>)) >>

CustomerWithAddress ==
    << Cell(ADDRESS, StrCell(<<"D", "h", "a", "k", "a">>)), Cell(ACCOUNT_NUMBER, StrCell(<<"4", "5", "6">>)) >>

BankState ==
    << Cell(BANK_NAME, StrCell(<<"S", "t", "a", "t", "e">>)), Cell(CURRENCY_KEY, StrCell(<<"T", "a", "k", "a">>)) >>

BankOther ==
    << Cell(BANK_NAME, StrCell(<<"O", "t", "h", "e", "r">>)), Cell(OPENING_BALANCE, NumCell(<<"1", "0">>)),
       Cell(CURRENCY_KEY, StrCell(<<"u", "s", "d">>)) >>

BankNoCurrency ==
    << Cell(BANK_NAME, NullCell), Cell(CLOSING_BALANCE, NumCell(<<"2", "0">>)),
       Cell(CURRENCY_KEY, NullCell) >>

BankEmptyCurrency ==
    << Cell(CLOSING_BALANCE, NumCell(<<"3", "0">>)), Cell(CURRENCY_KEY, StrCell(<< >>)) >>

MergePayload(keys, customer, bank, columns, transactions, page_info) ==
    [keys                |-> keys,
     customer_details    |-> customer,
     bank_details        |-> bank,
     transaction_columns |-> columns,
     transactions        |-> transactions,
     transactions_null   |-> FALSE,
     page_info           |-> page_info,
     confidence_scores   |-> << >>,
     usage               |-> UsageOfCall]

AllKeys == Range(REQUIRED_KEYS)

MergePayloads ==
    { MergePayload(AllKeys, << >>, << >>, << >>, << >>, TRUE),
      MergePayload(AllKeys, CustomerBlank, BankNoCurrency, <<COL_DATE, COL_AMOUNT>>,
                   <<RowAtm>>, TRUE),
      MergePayload(AllKeys, CustomerJohn, BankState,
                   <<COL_DATE, COL_DESCRIPTION, COL_DEBIT, COL_CREDIT>>, << >>, TRUE),
      MergePayload(AllKeys, CustomerNumber, BankOther, <<COL_AMOUNT, COL_AMOUNT>>,
                   <<RowAtm>>, TRUE),
      MergePayload(AllKeys, CustomerWithAddress, BankOther, <<COL_DATE, COL_AMOUNT>>,
                   <<RowSalary>>, FALSE),
      MergePayload({"transactions"}, << >>, << >>, << >>, <<RowFee>>, TRUE),
      MergePayload(AllKeys, CustomerNumber, BankState, << >>, << >>, TRUE),
      MergePayload(AllKeys, CustomerBlank, << >>, <<COL_DATE, COL_AMOUNT>>, << >>, TRUE),
      MergePayload(AllKeys, << >>, BankNoCurrency, << >>, <<RowAtm>>, TRUE),
      MergePayload(AllKeys, CustomerJohn, BankEmptyCurrency, << >>, << >>, FALSE) }

\* the responses of pages 1..k, as the extractor returns them
MergeInputs ==
    UNION { { [i \in 1..k |-> ExtractorResult(payloads[i], i)] :
                payloads \in [1..k -> MergePayloads] } : k \in 1..MaxResponses }

InitMerge ==
    /\ PipelineInit
    /\ doc_pages = 0
    /\ fn_in \in {<<responses>> : responses \in MergeInputs}
    /\ fn_out = << >>

\* parser.py:150-154
ApplyMerge ==
    /\ fn_in # << >>
    /\ fn_out = << >>
    /\ fn_out' = <<[customer_details |-> _merge_customer_details(fn_in[1]),
                    bank_details     |-> _merge_bank_details(fn_in[1]),
                    schema           |-> _detect_schema(fn_in[1])]>>
    /\ UNCHANGED <<pipeline_vars, fn_in>>

NextMerge == ApplyMerge

SpecMerge == InitMerge /\ [][NextMerge]_vars

(***************************************************************************)
(* normalize_currency applied to bounded inputs                            *)
(***************************************************************************)
MaxCurrencyLen == 3

CurrencyChars == {"t", "k", "U", "s", "d", " ", "$", "TAKA_SIGN", "x"}

\* null, numbers, every text of at most MaxCurrencyLen characters, and some
\* longer names
CurrencyInputs ==
    {NullCell, NumCell(<<"0">>), NumCell(<<"5">>)}
    \cup {StrCell(s) : s \in SeqsUpTo(CurrencyChars, MaxCurrencyLen)}
    \cup {StrCell(s) : s \in { <<"T", "a", "k", "a">>, <<"U", "S", " ", "D", "o", "l", "l", "a", "r", "s">>, <<"c", "u", "r", "r", "e", "n", "c", "y">>,
                               <<"B", "D", "T", " ", "c", "o", "d", "e">>, <<"C", "u", "r", "r", "e", "n", "c", "y", ":", " ", "E", "U", "R">>,
                               <<"E", "u", "r", "o", "s">>, <<"Z", "l", "o", "t", "y">> }}

InitCurrency ==
    /\ PipelineInit
    /\ doc_pages = 0
    /\ fn_in \in {<<currency_str>> : currency_str \in CurrencyInputs}
    /\ fn_out = << >>

ApplyCurrency ==
    /\ fn_in # << >>
    /\ fn_out = << >>
    /\ fn_out' = <<normalize_currency(fn_in[1])>>
    /\ UNCHANGED <<pipeline_vars, fn_in>>

NextCurrency == ApplyCurrency

SpecCurrency == InitCurrency /\ [][NextCurrency]_vars

(***************************************************************************)
(* _extract_confidence_scores applied to bounded responses                 *)
(***************************************************************************)
MaxScorePages == 2

ScoreValues == {50, 100}

\* the confidence_scores of a page: None, or a dict with any of the four
\* names (Optional[Dict[str, float]], llm_service.py:41)
ScoreDict(names, value) ==
    LET present == SelectSeq(SCORE_NAMES, LAMBDA name : name \in names)
    IN  [i \in 1..Len(present) |-> Cell(present[i], value[present[i]])]

PageScores ==
    {<< >>} \cup { <<ScoreDict(names, value)>> :
                       names \in SUBSET Range(SCORE_NAMES),
                       value \in [Range(SCORE_NAMES) -> ScoreValues] }

ConfidenceInputs ==
    { [i \in 1..Len(pages) |-> [confidence_scores |-> pages[i]]] :
          pages \in SeqsUpTo(PageScores, MaxScorePages) }

InitConfidence ==
    /\ PipelineInit
    /\ doc_pages = 0
    /\ fn_in \in {<<responses>> : responses \in ConfidenceInputs}
    /\ fn_out = << >>

\* processor.py:119
ApplyConfidence ==
    /\ fn_in # << >>
    /\ fn_out = << >>
    /\ fn_out' = <<_extract_confidence_scores(fn_in[1])>>
    /\ UNCHANGED <<pipeline_vars, fn_in>>

NextConfidence == ApplyConfidence

SpecConfidence == InitConfidence /\ [][NextConfidence]_vars

(***************************************************************************)
(* One StatementProcessor processing documents one after the other: the    *)
(* object built by __init__ (processor.py:17-22) keeps its GroqCloudService*)
(* and process_statement is called on it once per document.  db is then    *)
(* the statement row and the ledger of the document being processed.       *)
(***************************************************************************)
\* lines 40-50 on the processor that already exists: nothing of lines 24-152
\* touches the counters of self.llm_service before the page loop
StartOnProcessor ==
    /\ pc = "idle"
    /\ runs < MaxRuns
    /\ LET sess == [active    |-> TRUE,
                    statement |-> [db.statement EXCEPT !.processing_status = "processing"],
                    pending   |-> EmptyLedger]
       IN  /\ session' = sess
           /\ db' = Committed(sess, db)
    /\ pc' = "extract_images"
    /\ images' = << >>
    /\ page_idx' = 1
    /\ llm_responses' = << >>
    /\ processing_logs' = << >>
    /\ all_validation_errors' = {}
    /\ parsed_data' = << >>
    /\ calls' = << >>
    /\ page_results' = << >>
    /\ merge_calls' = 0
    /\ all_transactions' = << >>
    /\ result' = "none"
    /\ runs' = runs + 1
    /\ ledger_at_start' = db.ledger
    /\ UNCHANGED <<llm_totals, doc_pages, fn_vars>>

\* lines 144 and 152: process_statement returns to its caller, which keeps
\* the processor; the next statement_id is another document's row
ReturnToCaller ==
    /\ pc = "done"
    /\ pc' = "idle"
    /\ db' = [statement |-> NewStatement, ledger |-> EmptyLedger]
    /\ session' = [active |-> TRUE, statement |-> NewStatement, pending |-> EmptyLedger]
    /\ images' = << >>
    /\ page_idx' = 1
    /\ llm_responses' = << >>
    /\ processing_logs' = << >>
    /\ all_validation_errors' = {}
    /\ parsed_data' = << >>
    /\ calls' = << >>
    /\ page_results' = << >>
    /\ merge_calls' = 0
    /\ all_transactions' = << >>
    /\ result' = "none"
    /\ ledger_at_start' = EmptyLedger
    /\ UNCHANGED <<llm_totals, doc_pages, runs, fn_vars>>

NextProcessor ==
    \/ StartOnProcessor
    \/ NotFound
    \/ ExtractImages
    \/ ExtractImagesRaises
    \/ \E payload \in ProcessorPayloads : PageReturns(payload)
    \/ \E kind \in ExtractorErrors : PageRaises(kind)
    \/ NoUsablePages
    \/ MergeRaises
    \/ Merge
    \/ Save
    \/ \E store_error \in BOOLEAN : SaveRaises(store_error)
    \/ ReturnToCaller

SpecProcessor == Init /\ [][NextProcessor]_vars

(***************************************************************************)
(* _extract_date applied to rows with several date columns                 *)
(***************************************************************************)
COL_DATE_LOWER == <<"d", "a", "t", "e">>
COL_VALUE_DATE == <<"V", "a", "l", "u", "e", " ", "D", "a", "t", "e">>
COL_POSTED == <<"P", "o", "s", "t", "e", "d">>

\* what a cell of a date column can hold
DateCellValues ==
    { ABSENT, NullCell, StrCell(<< >>), StrCell(<<"a", "b", "c">>), NumCell(<<"2", "0", "2", "4", "0", "1", "0", "5">>),
      StrCell(<<"2", "0", "2", "4", "-", "0", "1", "-", "0", "5">>), StrCell(<<"0", "6", "/", "0", "1", "/", "2", "0", "2", "4">>) }

\* the row lists its columns as the statement does, not in alias order
DateRow(posted, value_date, upper, lower) ==
    OptionalCell(COL_POSTED, posted) \o OptionalCell(COL_VALUE_DATE, value_date)
    \o OptionalCell(COL_DATE, upper) \o OptionalCell(COL_DATE_LOWER, lower)

DateSchemas == { << >>, <<COL_POSTED, COL_DATE>>, <<COL_DATE, COL_POSTED>> }

DateInputs ==
    { [txn    |-> DateRow(posted, value_date, upper, lower),
       schema |-> [columns |-> columns]] :
          posted \in DateCellValues, value_date \in DateCellValues,
          upper \in DateCellValues, lower \in DateCellValues, columns \in DateSchemas }

InitDate ==
    /\ PipelineInit
    /\ doc_pages = 0
    /\ fn_in \in {<<input>> : input \in DateInputs}
    /\ fn_out = << >>

\* parser.py:265
ApplyDate ==
    /\ fn_in # << >>
    /\ fn_out = << >>
    /\ fn_out' = <<_extract_date(fn_in[1].txn, fn_in[1].schema)>>
    /\ UNCHANGED <<pipeline_vars, fn_in>>

NextDate == ApplyDate

SpecDate == InitDate /\ [][NextDate]_vars

(***************************************************************************)
(* _infer_column_type applied to bounded names and samples                 *)
(***************************************************************************)
MaxSamples == 3

COL_PARTICULARS == <<"P", "a", "r", "t", "i", "c", "u", "l", "a", "r", "s">>

InferNames == {COL_DATE, COL_VALUE_DATE, COL_DESCRIPTION, COL_WITHDRAWALS, COL_BALANCE,
               COL_AMOUNT, COL_REF, COL_PARTICULARS}

\* txn.get(col) of a sampled row: None for a null cell and for a missing key
SampleValues ==
    { NullCell, NumCell(<<"5", "0">>), StrCell(<< >>), StrCell(<<"a", "b", "c">>),
      StrCell(<<"1", ",", "2", "5", "0", ".", "5", "0">>) }

InferInputs ==
    { [column_name |-> name, sample_values |-> samples] :
          name \in InferNames, samples \in SeqsUpTo(SampleValues, MaxSamples) }

InitInfer ==
    /\ PipelineInit
    /\ doc_pages = 0
    /\ fn_in \in {<<input>> : input \in InferInputs}
    /\ fn_out = << >>

\* parser.py:236
ApplyInfer ==
    /\ fn_in # << >>
    /\ fn_out = << >>
    /\ fn_out' = <<_infer_column_type(fn_in[1].column_name, fn_in[1].sample_values)>>
    /\ UNCHANGED <<pipeline_vars, fn_in>>

NextInfer == ApplyInfer

SpecInfer == InitInfer /\ [][NextInfer]_vars

(***************************************************************************)
(* validate_response applied to dicts with any of the keys an answer can   *)
(* have                                                                    *)
(***************************************************************************)
RESPONSE_KEYS == Range(REQUIRED_KEYS) \cup {"page_info", "confidence_scores", "_metadata"}

ValidateInputs == { [keys |-> keys] : keys \in SUBSET RESPONSE_KEYS }

InitValidate ==
    /\ PipelineInit
    /\ doc_pages = 0
    /\ fn_in \in {<<response>> : response \in ValidateInputs}
    /\ fn_out = << >>

\* processor.py:92
ApplyValidate ==
    /\ fn_in # << >>
    /\ fn_out = << >>
    /\ fn_out' = <<validate_response(fn_in[1])>>
    /\ UNCHANGED <<pipeline_vars, fn_in>>

NextValidate == ApplyValidate

SpecValidate == InitValidate /\ [][NextValidate]_vars

(***************************************************************************)
(* GroqCloudService._call_api_with_retry_async for one page.  fn_in holds  *)
(* the service's retry_attempts; fn_out holds the locals of the call: the  *)
(* loop variable, the API calls issued so far with their outcomes, the     *)
(* sleeps taken, and how the call ended.                                   *)
(***************************************************************************)
\* config.py:34
RETRY_ATTEMPTS == 3

\* config.py:35
RETRY_DELAY == 2

\* what one chat.completions.create call does: it answers, or raises an
\* error whose text names a rate limit, a server error, a timeout or
\* something else
ApiOutcomes == {"ok", "rate_limit", "server_error", "timeout", "other"}

RECURSIVE Pow2(_)
Pow2(n) == IF n = 0 THEN 1 ELSE 2 * Pow2(n - 1)

InitRetry ==
    /\ PipelineInit
    /\ doc_pages = 0
    /\ fn_in = <<[retry_attempts |-> RETRY_ATTEMPTS]>>
    /\ fn_out = << >>

\* line 344: the call begins
CallApiWithRetry ==
    /\ fn_out = << >>
    /\ fn_out' = <<[attempt |-> 0, calls |-> << >>, sleeps |-> << >>, status |-> "running",
                    response |-> << >>, last_error |-> << >>]>>
    /\ UNCHANGED <<pipeline_vars, fn_in>>

\* the loop body returning whatever the call did, failed or not
AttemptReturnsAnyway(outcome) ==
    /\ fn_out # << >>
    /\ fn_out[1].status = "running"
    /\ fn_out[1].attempt < fn_in[1].retry_attempts
    /\ fn_out' = <<[fn_out[1] EXCEPT !.calls = Append(@, outcome),
                                     !.status = "returned",
                                     !.response = IF outcome = "ok" THEN <<Len(fn_out[1].calls) + 1>>
                                                  ELSE << >>]>>
    /\ UNCHANGED <<pipeline_vars, fn_in>>

\* lines 346-404: one iteration of the for loop
Attempt(outcome) ==
    /\ fn_out # << >>
    /\ fn_out[1].status = "running"
    /\ fn_out[1].attempt < fn_in[1].retry_attempts
    /\ LET loc     == fn_out[1]
           attempt == loc.attempt
           called  == [loc EXCEPT !.calls = Append(@, outcome)]
           failed  == [called EXCEPT !.last_error = <<outcome>>]
       IN  fn_out' =
             IF outcome = "ok"
             THEN <<[called EXCEPT !.status = "returned", !.response = <<Len(called.calls)>>]>>
             ELSE IF outcome \in {"rate_limit", "server_error"}
             THEN <<[failed EXCEPT !.sleeps = Append(@, RETRY_DELAY * Pow2(attempt)),
                                   !.attempt = attempt + 1]>>
             ELSE IF attempt < fn_in[1].retry_attempts - 1
             THEN <<[failed EXCEPT !.sleeps = Append(@, RETRY_DELAY),
                                   !.attempt = attempt + 1]>>
             ELSE <<[failed EXCEPT !.status = "raised"]>>
    /\ UNCHANGED <<pipeline_vars, fn_in>>

\* lines 406-409: the loop is exhausted
Exhausted ==
    /\ fn_out # << >>
    /\ fn_out[1].status = "running"
    /\ fn_out[1].attempt >= fn_in[1].retry_attempts
    /\ fn_out' = <<[fn_out[1] EXCEPT !.status = "raised"]>>
    /\ UNCHANGED <<pipeline_vars, fn_in>>

NextRetry ==
    \/ CallApiWithRetry
    \/ \E outcome \in ApiOutcomes : Attempt(outcome)
    \/ Exhausted

\* the coroutine is awaited to its end by asyncio.run (llm_service.py:311):
\* a step that can be taken is taken
SpecRetry == InitRetry /\ [][NextRetry]_vars /\ WF_vars(NextRetry)

(***************************************************************************)
(* Properties of process_statement                                         *)
(***************************************************************************)
\* the log records of page p with status 'error'
ErrorLogs(p) ==
    {j \in 1..Len(processing_logs) :
        processing_logs[j].page = p /\ processing_logs[j].status = "error"}

\* the page loop has been left
LoopEnded == pc # "page_loop" \/ page_idx > Len(images)

\* every page of the document has been passed to the extractor
EveryPageAttempted == Len(page_results) = doc_pages

SomePageReturned == \E i \in 1..Len(page_results) : page_results[i].returned

SomePageRaised == \E i \in 1..Len(page_results) : ~page_results[i].returned

\* the rows of the pages whose extraction succeeded, in page order
RECURSIVE SuccessfulRows(_, _)
SuccessfulRows(results, i) ==
    IF i > Len(results) THEN << >>
    ELSE (IF results[i].returned /\ ~results[i].payload[1].transactions_null
          THEN results[i].payload[1].transactions ELSE << >>)
         \o SuccessfulRows(results, i + 1)

RawRows(transactions) == [k \in 1..Len(transactions) |-> transactions[k].data]

\* C1: when the extractor call of a page p raises, the exception stays in the
\* page loop: the loop moves on past p, every later page is passed to the
\* extractor before the loop is left, and processing_logs has exactly one
\* record with page = p and status 'error', which carries the error text.
C1_PageErrorStaysInLoop ==
    \A i \in 1..Len(page_results) :
        ~page_results[i].returned =>
            LET p == page_results[i].page
            IN  /\ Cardinality(ErrorLogs(p)) = 1
                /\ \A j \in ErrorLogs(p) :
                       processing_logs[j].error = <<ErrorText(page_results[i].kind, p)>>
                /\ page_idx > i
                /\ LoopEnded => calls = images

\* C1: the first page raised, the second was extracted and the run went on
C1_Witness ==
    /\ pc = "save"
    /\ Len(page_results) >= 2
    /\ ~page_results[1].returned
    /\ page_results[2].returned

C3_NoUsablePagesFails ==
    (pc = "done" /\ EveryPageAttempted /\ ~SomePageReturned) =>
        /\ db.statement.processing_status = "failed"
        /\ db.statement.error_message # ""
        /\ result = "false"
        /\ merge_calls = 0
        /\ parsed_data = << >>
        /\ session.pending = EmptyLedger
        /\ db.ledger = ledger_at_start

\* C3: a run whose two or more pages all raised
C3_Witness ==
    /\ pc = "done"
    /\ doc_pages >= 2
    /\ EveryPageAttempted
    /\ ~SomePageReturned
    /\ db.statement.processing_status = "failed"

TerminalStatuses == {"completed", "failed"}

\* C4 as stated: a statement with status 'failed' never has ledger records
\* (customer details, bank details, schema, transaction rows).
C4_FailedHasNoLedger ==
    db.statement.processing_status = "failed" => db.ledger = EmptyLedger

\* C5 as stated: processing_status changes only along pending->processing,
\* processing->completed and processing->failed, so that 'completed' and
\* 'failed', once reached, are never changed by a later operation.
C5_StatusTransitions ==
    [][db'.statement.processing_status # db.statement.processing_status =>
          /\ db.statement.processing_status \notin TerminalStatuses
          /\ <<db.statement.processing_status, db'.statement.processing_status>> \in
                 {<<"pending", "processing">>, <<"processing", "completed">>,
                  <<"processing", "failed">>}]_vars

\* C6 as stated: when process_statement has ended, the statement's status
\* is 'completed' or 'failed', never 'processing', and a 'failed' statement
\* has a non-empty error_message.
C6_EndsCompletedOrFailed ==
    pc = "done" =>
        /\ db.statement.processing_status \in TerminalStatuses
        /\ db.statement.processing_status = "failed" => db.statement.error_message # ""

\* C7: within one document the extractor is invoked once per page, one page
\* at a time in increasing page order, never more often than there are
\* pages; once the loop has ended every page has had its call, and
\* parse_and_merge is invoked only after that.
C7_OneCallPerPageInOrder ==
    /\ \A i \in 1..Len(calls) : calls[i] = i
    /\ Len(calls) <= doc_pages
    /\ Len(calls) = page_idx - 1
    /\ (pc = "save" \/ (pc = "page_loop" /\ page_idx > Len(images))) => Len(calls) = doc_pages
    /\ merge_calls <= 1
    /\ merge_calls > 0 => Len(calls) = doc_pages

\* C7: the merge of a document of several pages
C7_Witness ==
    /\ merge_calls = 1
    /\ doc_pages = MaxPages
    /\ calls = [i \in 1..MaxPages |-> i]

\* what the extractor returned, in call order
RECURSIVE ReturnedResponses(_, _)
ReturnedResponses(results, i) ==
    IF i > Len(results) THEN << >>
    ELSE (IF results[i].returned
          THEN <<ExtractorResult(results[i].payload[1], results[i].page)>> ELSE << >>)
         \o ReturnedResponses(results, i + 1)

\* the page's response has all four required keys, or only lacks some of them
ValidOrMissingKeys(r) == r.returned /\ ~r.payload[1].transactions_null

\* C8: a response that fails structural validation is appended to the merge
\* input at its place in page order like any other response; and a run all
\* of whose pages returned, with missing required keys as their only
\* defect, reaches the merge and does not end 'failed'.
C8_InvalidResponseIsKept ==
    /\ llm_responses = ReturnedResponses(page_results, 1)
    /\ (pc = "done" /\ doc_pages > 0 /\ EveryPageAttempted
          /\ \A i \in 1..Len(page_results) : ValidOrMissingKeys(page_results[i])) =>
           /\ parsed_data # << >>
           /\ db.statement.processing_status # "failed"
           /\ result = "true" => db.statement.processing_status = "completed"

\* C8: a completed run whose second response lacks required keys
C8_Witness ==
    /\ pc = "done"
    /\ db.statement.processing_status = "completed"
    /\ Len(llm_responses) >= 2
    /\ validate_response(llm_responses[1]).is_valid
    /\ ~validate_response(llm_responses[2]).is_valid

\* where each row of the successful pages comes from
RECURSIVE RowOrigins(_, _)
RowOrigins(results, i) ==
    IF i > Len(results) THEN << >>
    ELSE (IF results[i].returned /\ ~results[i].payload[1].transactions_null
          THEN [j \in 1..Len(results[i].payload[1].transactions) |->
                   [page_number |-> results[i].page, row_index |-> j - 1]]
          ELSE << >>)
         \o RowOrigins(results, i + 1)

\* C9 as stated: every normalized transaction carries the 1-based number of
\* the document page whose response contained its row, and the 0-based
\* position of the row within that page.
C9_PageNumberIsDocumentPage ==
    parsed_data # << >> =>
        /\ Len(all_transactions) = Len(RowOrigins(page_results, 1))
        /\ \A k \in 1..Len(all_transactions) :
               /\ all_transactions[k].page_number = RowOrigins(page_results, 1)[k].page_number
               /\ all_transactions[k].row_index = RowOrigins(page_results, 1)[k].row_index
        /\ \A k \in 1..Len(parsed_data[1].transactions) :
               \E n \in 1..Len(all_transactions) :
                   parsed_data[1].transactions[k] = all_transactions[n]

(***************************************************************************)
(* Properties of _deduplicate_transactions                                 *)
(***************************************************************************)
\* date as string, amount as string, first 50 characters of the first
\* description-like field of the raw row
SignatureParts(txn) ==
    LET described == {i \in 1..Len(txn.data) : IsDescriptionKey(txn.data[i].key)}
        first     == CHOOSE i \in described : \A j \in described : i <= j
        text      == PyStr(txn.data[first].val)
    IN  << IF txn.transaction_date = << >> THEN NoneStr ELSE DateStr(txn.transaction_date[1]),
           IF txn.amount = << >> THEN NoneStr ELSE DecimalStr(txn.amount[1]),
           IF described = {} THEN << >>
           ELSE [i \in 1..Min(Len(text), 50) |-> text[i]] >>

\* position i is the first of its signature
FirstOccurrence(transactions, i) ==
    \A j \in 1..(i - 1) : SignatureParts(transactions[j]) # SignatureParts(transactions[i])

RECURSIVE FirstOccurrences(_, _)
FirstOccurrences(transactions, i) ==
    IF i > Len(transactions) THEN << >>
    ELSE (IF FirstOccurrence(transactions, i) THEN <<transactions[i]>> ELSE << >>)
         \o FirstOccurrences(transactions, i + 1)

\* C10: _deduplicate_transactions returns the subsequence of its input made
\* of the first occurrence of each signature, in the original order: a
\* transaction is dropped exactly when an earlier one has the same date
\* string, amount string and 50-character description prefix.
C10_KeepsFirstOccurrences ==
    fn_out # << >> => fn_out[1] = FirstOccurrences(fn_in[1], 1)

\* C10: an input where a row is dropped because a row of another page has
\* the same signature, one of the two being a long description that differs
\* only after its 50th character
C10_Witness ==
    /\ fn_out # << >>
    /\ Len(fn_in[1]) = 3
    /\ Len(fn_out[1]) = 2
    /\ \E i, j \in 1..3 :
           /\ i < j
           /\ fn_in[1][i] # fn_in[1][j]
           /\ fn_in[1][i].data # fn_in[1][j].data
           /\ SignatureParts(fn_in[1][i]) = SignatureParts(fn_in[1][j])

\* C11: deduplication is idempotent: applied to its own result,
\* _deduplicate_transactions returns that result, same elements in the
\* same order.
C11_DedupIdempotent ==
    fn_out # << >> => _deduplicate_transactions(fn_out[1]) = fn_out[1]

\* C11: an input of three transactions with one signature, reduced to one
C11_Witness ==
    /\ fn_out # << >>
    /\ Len(fn_in[1]) = 3
    /\ Len(fn_out[1]) = 1
    /\ fn_in[1][1] # fn_in[1][2]

(***************************************************************************)
(* Properties of _normalize_transaction and _extract_amount_and_type       *)
(***************************************************************************)
\* the (amount, transaction_type) of the normalized row
AmountResult ==
    [amount           |-> fn_out[1].normalized.amount,
     transaction_type |-> fn_out[1].normalized.transaction_type]

\* (|v|, type) for a parsed value
Magnitude(v, type) ==
    [amount |-> <<[neg |-> FALSE, coef |-> v.coef, exp |-> v.exp]>>, transaction_type |-> type]

\* the parsed value of the row in the column
ParsedIn(txn, col) == _parse_amount(Get(txn, col))

IsDebitColumn(col) == AnyIndicatorIn(DEBIT_INDICATORS, Lower(col))

IsCreditColumn(col) == ~IsDebitColumn(col) /\ AnyIndicatorIn(CREDIT_INDICATORS, Lower(col))

\* the debit and credit column of a schema: the last of each family
DebitColumn(columns) ==
    columns[CHOOSE i \in 1..Len(columns) :
                IsDebitColumn(columns[i])
                /\ \A j \in (i + 1)..Len(columns) : ~IsDebitColumn(columns[j])]

CreditColumn(columns) ==
    columns[CHOOSE i \in 1..Len(columns) :
                IsCreditColumn(columns[i])
                /\ \A j \in (i + 1)..Len(columns) : ~IsCreditColumn(columns[j])]

HasDebitColumn(columns) == \E i \in 1..Len(columns) : IsDebitColumn(columns[i])

HasCreditColumn(columns) == \E i \in 1..Len(columns) : IsCreditColumn(columns[i])

\* the positions of the 'amount' columns whose value parses
SignedColumns(txn, columns) ==
    {i \in 1..Len(columns) :
        Contains(AMOUNT_MARKER, Lower(columns[i])) /\ ParsedIn(txn, columns[i]) # << >>}

\* the positions of the columns present in the row with a non-zero number
NumericColumns(txn, columns) ==
    {i \in 1..Len(columns) :
        /\ HasKey(txn, columns[i])
        /\ ParsedIn(txn, columns[i]) # << >>
        /\ ParsedIn(txn, columns[i])[1].coef # 0}

First(S) == CHOOSE i \in S : \A j \in S : i <= j

\* what the signed-amount strategy and, after it, the any-numeric strategy give
SignedOrNumeric(txn, columns) ==
    IF SignedColumns(txn, columns) # {}
    THEN LET v == ParsedIn(txn, columns[First(SignedColumns(txn, columns))])[1]
         IN  IF v.neg /\ v.coef # 0 THEN Magnitude(v, "debit")
             ELSE [amount |-> <<v>>, transaction_type |-> "credit"]
    ELSE IF NumericColumns(txn, columns) # {}
    THEN Magnitude(ParsedIn(txn, columns[First(NumericColumns(txn, columns))])[1], "none")
    ELSE [amount |-> << >>, transaction_type |-> "none"]

\* C12: the amount of a normalized row is null or a number >= 0, whichever
\* strategy produced it.
C12_AmountNeverNegative ==
    fn_out # << >> =>
        \/ AmountResult.amount = << >>
        \/ ~AmountResult.amount[1].neg
        \/ AmountResult.amount[1].coef = 0

\* C12: a debit column holding -50 gives the amount 50
C12_Witness ==
    /\ fn_out # << >>
    /\ Get(fn_in[1].txn, COL_DEBIT) = NumCell(<<"-", "5", "0">>)
    /\ AmountResult = [amount |-> <<[neg |-> FALSE, coef |-> 50, exp |-> 0]>>,
                       transaction_type |-> "debit"]

\* C13: with a debit and a credit column in the schema, a debit value that
\* parses to non-zero gives (|debit|, 'debit') whatever the credit value is;
\* otherwise a credit value that parses to non-zero gives (|credit|,
\* 'credit'); otherwise the later strategies decide.
C13_DualColumns ==
    (fn_out # << >> /\ HasDebitColumn(fn_in[1].schema.columns)
                    /\ HasCreditColumn(fn_in[1].schema.columns)) =>
        LET txn     == fn_in[1].txn
            columns == fn_in[1].schema.columns
            debit   == ParsedIn(txn, DebitColumn(columns))
            credit  == ParsedIn(txn, CreditColumn(columns))
        IN  AmountResult =
                IF debit # << >> /\ debit[1].coef # 0 THEN Magnitude(debit[1], "debit")
                ELSE IF credit # << >> /\ credit[1].coef # 0 THEN Magnitude(credit[1], "credit")
                ELSE SignedOrNumeric(txn, columns)

\* C13: a row with a non-zero debit and a non-zero credit value
C13_Witness ==
    /\ fn_out # << >>
    /\ HasDebitColumn(fn_in[1].schema.columns)
    /\ HasCreditColumn(fn_in[1].schema.columns)
    /\ Get(fn_in[1].txn, COL_DEBIT) = StrCell(<<"(", "5", ".", "0", "0", ")">>)
    /\ Get(fn_in[1].txn, COL_CREDIT) = NumCell(<<"5", "0">>)
    /\ AmountResult.transaction_type = "debit"

\* C14: when no debit/credit column gave a result and an 'amount' column of
\* the schema holds a value v that parses, the result is (|v|, 'debit') for
\* v < 0 and (v, 'credit') for v >= 0, zero included.
C14_SignedAmount ==
    (fn_out # << >> /\ IndicatorStrategy(fn_in[1].txn, fn_in[1].schema.columns) = << >>
                    /\ SignedColumns(fn_in[1].txn, fn_in[1].schema.columns) # {}) =>
        LET txn     == fn_in[1].txn
            columns == fn_in[1].schema.columns
            v       == ParsedIn(txn, columns[First(SignedColumns(txn, columns))])[1]
        IN  AmountResult =
                IF v.neg /\ v.coef # 0 THEN Magnitude(v, "debit")
                ELSE [amount |-> <<v>>, transaction_type |-> "credit"]

\* C14: {Amount: 0} classified as a credit of 0
C14_Witness ==
    /\ fn_out # << >>
    /\ fn_in[1].schema.columns = <<COL_DATE, COL_AMOUNT, COL_BALANCE>>
    /\ Get(fn_in[1].txn, COL_AMOUNT) = NumCell(<<"0">>)
    /\ AmountResult = [amount |-> <<[neg |-> FALSE, coef |-> 0, exp |-> 0]>>,
                       transaction_type |-> "credit"]

\* C15: when the debit/credit and signed-amount strategies give nothing,
\* the result is (|v|, null) for the first schema column, in schema order,
\* that is a key of the row with a value v parsing to non-zero, and (null,
\* null) when there is no such column.
C15_AnyNumeric ==
    (fn_out # << >> /\ IndicatorStrategy(fn_in[1].txn, fn_in[1].schema.columns) = << >>
                    /\ SignedColumns(fn_in[1].txn, fn_in[1].schema.columns) = {}) =>
        LET txn     == fn_in[1].txn
            columns == fn_in[1].schema.columns
        IN  AmountResult =
                IF NumericColumns(txn, columns) # {}
                THEN Magnitude(ParsedIn(txn, columns[First(NumericColumns(txn, columns))])[1],
                               "none")
                ELSE [amount |-> << >>, transaction_type |-> "none"]

\* C15: two numeric columns, the first in schema order decides
C15_Witness ==
    /\ fn_out # << >>
    /\ fn_in[1].schema.columns = <<COL_DATE, COL_REF, COL_VALUE>>
    /\ Get(fn_in[1].txn, COL_DATE) = StrCell(<<"2", "0", "2", "4", "-", "0", "1", "-", "0", "5">>)
    /\ Get(fn_in[1].txn, COL_REF) = StrCell(<<"(", "5", ".", "0", "0", ")">>)
    /\ Get(fn_in[1].txn, COL_VALUE) = NumCell(<<"5", "0">>)
    /\ AmountResult = [amount |-> <<[neg |-> FALSE, coef |-> 500, exp |-> 2]>>,
                       transaction_type |-> "none"]

\* C16: the normalized row carries the input row unchanged under 'data',
\* and so does every transaction that comes out of the deduplication.
C16_RawRowPreserved ==
    fn_out # << >> =>
        /\ fn_out[1].normalized.data = fn_in[1].txn
        /\ fn_out[1].deduplicated # << >>
        /\ \A k \in 1..Len(fn_out[1].deduplicated) :
               fn_out[1].deduplicated[k].data = fn_in[1].txn

\* C16: a row with a null value and a resolved date and amount
C16_Witness ==
    /\ fn_out # << >>
    /\ \E i \in 1..Len(fn_in[1].txn) : fn_in[1].txn[i].val = NullCell
    /\ fn_out[1].normalized.transaction_date # << >>
    /\ fn_out[1].normalized.amount # << >>
    /\ Len(fn_out[1].deduplicated) = 1

(***************************************************************************)
(* Properties of _detect_schema and of the two detail merges               *)
(***************************************************************************)
\* the pages whose response has a non-empty transaction_columns
PagesWithColumns(responses) ==
    {i \in 1..Len(responses) :
        "transaction_columns" \in responses[i].keys /\ responses[i].transaction_columns # << >>}

\* C17: the detected columns are, in order, the transaction_columns of the
\* first response in page order that has a non-empty list, and the default
\* [date, description, amount, balance] when no response has one;
\* column_metadata has an entry for every column and for nothing else.
C17_SchemaColumns ==
    fn_out # << >> =>
        LET responses == fn_in[1]
            schema    == fn_out[1].schema
        IN  /\ schema.columns =
                  IF PagesWithColumns(responses) = {}
                  THEN << <<"d", "a", "t", "e">>, <<"d", "e", "s", "c", "r", "i", "p", "t", "i", "o", "n">>,
                          <<"a", "m", "o", "u", "n", "t">>, <<"b", "a", "l", "a", "n", "c", "e">> >>
                  ELSE responses[First(PagesWithColumns(responses))].transaction_columns
            /\ DOMAIN schema.column_metadata = Range(schema.columns)

\* C17: [] on page 1, then [Date, Amount] on page 2
C17_Witness ==
    /\ fn_out # << >>
    /\ Len(fn_in[1]) = 2
    /\ fn_in[1][1].transaction_columns = << >>
    /\ fn_in[1][2].transaction_columns = <<COL_DATE, COL_AMOUNT>>
    /\ fn_out[1].schema.columns = <<COL_DATE, COL_AMOUNT>>

\* the customer block of a page, {} when the page has none
CustomerBlock(response) ==
    IF "customer_details" \in response.keys THEN response.customer_details ELSE << >>

FieldOf(block, key) ==
    IF \E i \in 1..Len(block) : block[i].key = key
    THEN block[CHOOSE i \in 1..Len(block) : block[i].key = key].val
    ELSE NullCell

NotNull(cell) == cell.k # "null"

\* neither null nor the empty string nor the number 0
NotEmpty(cell) ==
    \/ cell.k = "str" /\ cell.s # << >>
    \/ cell.k = "num" /\ ParseDecimal(cell.s) # << >> /\ ParseDecimal(cell.s)[1].coef # 0

\* the pages whose customer block has a field for which Has holds
PagesWithIdentity(responses, Has(_)) ==
    {i \in 1..Len(responses) :
        \/ Has(FieldOf(CustomerBlock(responses[i]), ACCOUNT_HOLDER_NAME))
        \/ Has(FieldOf(CustomerBlock(responses[i]), ACCOUNT_NUMBER))}

\* C18 as stated: the result is the customer block of the first page whose
\* block has a non-null account_holder_name or account_number, and the
\* empty block when no page has one.
C18_FirstNonNullIdentity ==
    fn_out # << >> =>
        fn_out[1].customer_details =
            IF PagesWithIdentity(fn_in[1], NotNull) = {} THEN << >>
            ELSE CustomerBlock(fn_in[1][First(PagesWithIdentity(fn_in[1], NotNull))])

\* C18, amended: the result is, whole and unchanged, the customer block of
\* the first page in page order whose block has a non-empty
\* account_holder_name or account_number (null, '' and 0 count as empty),
\* and the empty block when no page has one.
C18_FirstNonEmptyIdentity ==
    fn_out # << >> =>
        fn_out[1].customer_details =
            IF PagesWithIdentity(fn_in[1], NotEmpty) = {} THEN << >>
            ELSE CustomerBlock(fn_in[1][First(PagesWithIdentity(fn_in[1], NotEmpty))])

\* C18: page 1 has an empty holder name and page 2 a name: the block of
\* page 2 is returned
C18_Witness ==
    /\ fn_out # << >>
    /\ Len(fn_in[1]) = 2
    /\ FieldOf(CustomerBlock(fn_in[1][1]), ACCOUNT_HOLDER_NAME) = StrCell(<< >>)
    /\ FieldOf(CustomerBlock(fn_in[1][2]), ACCOUNT_HOLDER_NAME) = StrCell(<<"J", "o", "h", "n">>)
    /\ fn_out[1].customer_details = CustomerBlock(fn_in[1][2])

BankBlock(response) ==
    IF "bank_details" \in response.keys THEN response.bank_details ELSE << >>

\* the pages on which the bank field is not null
PagesWithField(responses, key) ==
    {i \in 1..Len(responses) : NotNull(FieldOf(BankBlock(responses[i]), key))}

BankKeys(responses) ==
    UNION {{BankBlock(responses[i])[j].key : j \in 1..Len(BankBlock(responses[i]))} :
              i \in 1..Len(responses)}

FirstValue(responses, key) ==
    FieldOf(BankBlock(responses[First(PagesWithField(responses, key))]), key)

\* C19: every bank field has in the merged block the value of the first
\* page in page order on which it is not null, and is absent when it is
\* null on every page; the merged currency is the normalize_currency image
\* of that first value, and the default code when no page reports one.
C19_FirstNonNullPerField ==
    fn_out # << >> =>
        LET responses == fn_in[1]
            merged    == fn_out[1].bank_details
        IN  /\ \A key \in BankKeys(responses) \ {CURRENCY_KEY} :
                   IF PagesWithField(responses, key) = {}
                   THEN \A i \in 1..Len(merged) : merged[i].key # key
                   ELSE FieldOf(merged, key) = FirstValue(responses, key)
            /\ FieldOf(merged, CURRENCY_KEY) =
                   IF PagesWithField(responses, CURRENCY_KEY) = {}
                   THEN StrCell(<<"B", "D", "T">>)
                   ELSE StrCell(normalize_currency(FirstValue(responses, CURRENCY_KEY)))
            /\ \A i \in 1..Len(merged) :
                   merged[i].key \in BankKeys(responses) \cup {CURRENCY_KEY}
            /\ \A i, j \in 1..Len(merged) : merged[i].key = merged[j].key => i = j

\* C19: page 1 has no bank name and no currency, page 2 has both
C19_Witness ==
    /\ fn_out # << >>
    /\ Len(fn_in[1]) = 2
    /\ BankBlock(fn_in[1][1]) = ModelDump(BANK_FIELDS, BankNoCurrency)
    /\ BankBlock(fn_in[1][2]) = ModelDump(BANK_FIELDS, BankOther)
    /\ FieldOf(fn_out[1].bank_details, BANK_NAME) = StrCell(<<"O", "t", "h", "e", "r">>)
    /\ FieldOf(fn_out[1].bank_details, CLOSING_BALANCE) = NumCell(<<"2", "0">>)
    /\ FieldOf(fn_out[1].bank_details, CURRENCY_KEY) = StrCell(<<"U", "S", "D">>)

(***************************************************************************)
(* Properties of normalize_currency                                        *)
(***************************************************************************)
\* the input as the lookups see it: stripped, lower-cased, without the
\* words 'currency' and 'code'
CleanedCurrency(cell) == Strip(RemoveCommonWords(Lower(Strip(PyStr(cell))), 1))

IsSubstring(sub, s) ==
    \E i \in 0..(Len(s) - Len(sub)) : SubSeq(s, i + 1, i + Len(sub)) = sub

\* no allow-listed code, no table key, no substring match
Unrecognized(cell) ==
    LET cleaned == CleanedCurrency(cell)
    IN  /\ ~(Len(cleaned) = 3 /\ Upper(cleaned) \in ISO_CODES)
        /\ \A i \in 1..Len(CURRENCY_MAPPING) :
               /\ CURRENCY_MAPPING[i].key # cleaned
               /\ ~IsSubstring(CURRENCY_MAPPING[i].key, cleaned)
               /\ ~IsSubstring(cleaned, CURRENCY_MAPPING[i].key)

\* C20: normalize_currency returns a code of three upper-case letters for
\* every input; 'Taka', the taka sign and 'tk' give 'BDT'; null, the empty
\* string and every unrecognized string give the default code.
C20_CurrencyIsTotal ==
    fn_out # << >> =>
        /\ Len(fn_out[1]) = 3
        /\ \A i \in 1..3 : fn_out[1][i] \in Range(UpperLetters)
        /\ fn_in[1] \in {StrCell(<<"T", "a", "k", "a">>), StrCell(<<"TAKA_SIGN">>), StrCell(<<"t", "k">>)}
               => fn_out[1] = <<"B", "D", "T">>
        /\ (fn_in[1] = NullCell \/ fn_in[1] = StrCell(<< >>)) => fn_out[1] = <<"B", "D", "T">>
        /\ (fn_in[1].k = "str" /\ fn_in[1].s # << >> /\ Unrecognized(fn_in[1]))
               => fn_out[1] = <<"B", "D", "T">>

\* C20: a three-character text that is no code, no key and matches no key
C20_Witness ==
    /\ fn_out # << >>
    /\ fn_in[1] = StrCell(<<"U", "x", "d">>)
    /\ Unrecognized(fn_in[1])
    /\ fn_out[1] = <<"B", "D", "T">>

(***************************************************************************)
(* Properties of _extract_confidence_scores                                *)
(***************************************************************************)
\* the pages of the input whose confidence data has the score
PagesReporting(responses, name) ==
    { i \in 1..Len(responses) :
          /\ responses[i].confidence_scores # << >>
          /\ HasKey(responses[i].confidence_scores[1], name) }

RECURSIVE ReportedSum(_, _, _)
ReportedSum(responses, name, i) ==
    IF i > Len(responses) THEN 0
    ELSE (IF i \in PagesReporting(responses, name)
          THEN Get(responses[i].confidence_scores[1], name) ELSE 0)
         + ReportedSum(responses, name, i + 1)

\* C21: the average of each named score is the sum of the score over the
\* pages that reported it divided by the number of those pages; a page
\* without the score is left out and not counted as zero.
C21_AverageOverReportingPages ==
    (fn_out # << >> /\ fn_out[1] # << >>) =>
        \A k \in 1..Len(SCORE_NAMES) :
            LET name == SCORE_NAMES[k]
                avg  == Get(fn_out[1][1].average, name)
                n    == Cardinality(PagesReporting(fn_in[1], name))
            IN  n > 0 => avg.num * n = ReportedSum(fn_in[1], name, 1) * avg.den

(***************************************************************************)
(* Properties of the token counters                                        *)
(***************************************************************************)
\* the counts of the page calls of the current run: a call that returned
\* reports its usage, a call whose answer was not JSON had its usage counted
\* before the parse, a call whose API request failed has none
RECURSIVE OwnUsage(_, _)
OwnUsage(results, i) ==
    IF i > Len(results) THEN ZeroUsage
    ELSE LET rest == OwnUsage(results, i + 1)
         IN  IF results[i].returned THEN AddUsage(rest, results[i].payload[1].usage)
             ELSE IF results[i].kind = "invalid_json" THEN AddUsage(rest, UsageOfCall)
             ELSE rest

\* C22: the token_usage stored for a document is the sum of the counts of
\* that document's own page calls, also when the processor has processed
\* another document before.
C22_TokenUsageOfOwnCalls ==
    pc = "save" => session.statement.token_usage = <<OwnUsage(page_results, 1)>>

(***************************************************************************)
(* Properties of the single-sided debit or credit column                   *)
(***************************************************************************)
\* C23: with a debit column and no credit column in the schema, a value that
\* parses to non-zero in it gives (|v|, 'debit') before the signed-amount and
\* any-numeric strategies are tried, and likewise (|v|, 'credit') for a
\* credit column without a debit column; a zero, empty or unparseable value
\* leaves the decision to the later strategies.
C23_SingleSidedColumn ==
    fn_out # << >> =>
        LET txn     == fn_in[1].txn
            columns == fn_in[1].schema.columns
        IN  /\ (HasDebitColumn(columns) /\ ~HasCreditColumn(columns)) =>
                   LET debit == ParsedIn(txn, DebitColumn(columns))
                   IN  AmountResult =
                           IF debit # << >> /\ debit[1].coef # 0
                           THEN Magnitude(debit[1], "debit")
                           ELSE SignedOrNumeric(txn, columns)
            /\ (HasCreditColumn(columns) /\ ~HasDebitColumn(columns)) =>
                   LET credit == ParsedIn(txn, CreditColumn(columns))
                   IN  AmountResult =
                           IF credit # << >> /\ credit[1].coef # 0
                           THEN Magnitude(credit[1], "credit")
                           ELSE SignedOrNumeric(txn, columns)

\* C23: {Deposits: 50, Amount: -50} under the columns Date, Deposits, Amount
\* is a credit of 50, not the debit the signed amount would give
C23_Witness ==
    /\ fn_out # << >>
    /\ fn_in[1].schema.columns = <<COL_DATE, COL_DEPOSITS, COL_AMOUNT>>
    /\ Get(fn_in[1].txn, COL_DEPOSITS) = NumCell(<<"5", "0">>)
    /\ Get(fn_in[1].txn, COL_AMOUNT) = NumCell(<<"-", "5", "0">>)
    /\ AmountResult = [amount |-> <<[neg |-> FALSE, coef |-> 50, exp |-> 0]>>,
                       transaction_type |-> "credit"]

(***************************************************************************)
(* Properties of _extract_date                                             *)
(***************************************************************************)
\* the column is a key of the row and its value is non-empty and parses
ParsesAsDate(txn, col) ==
    /\ HasKey(txn, col)
    /\ Truthy(Get(txn, col))
    /\ _parse_date(Get(txn, col)) # << >>

\* the positions in DATE_COLUMNS of the aliases that yield a date
AliasHits(txn) == {i \in 1..Len(DATE_COLUMNS) : ParsesAsDate(txn, DATE_COLUMNS[i])}

NameRule(column_name) ==
    IF Contains(DATE_MARKER, Lower(column_name)) THEN "date"
    ELSE IF \/ IsDebitColumn(column_name)
            \/ IsCreditColumn(column_name)
            \/ Contains(BALANCE_MARKER, Lower(column_name))
            \/ Contains(AMOUNT_MARKER, Lower(column_name))
    THEN "currency"
    ELSE "none"

NonNullSamples(sample_values) ==
    {i \in 1..Len(sample_values) : sample_values[i].k # "null"}

\* C25: the name rules come first ('date' in the name gives 'date'; a
\* debit/credit indicator, 'balance' or 'amount' gives 'currency'); for any
\* other name the type is 'currency' exactly when more than half of the
\* sampled non-null values parse as an amount, and 'text' otherwise.
C25_NameThenNonNullMajority ==
    fn_out # << >> =>
        LET name    == fn_in[1].column_name
            samples == fn_in[1].sample_values
            numeric == {i \in NonNullSamples(samples) : IsNumericSample(samples[i])}
        IN  fn_out[1] =
                IF NameRule(name) # "none" THEN NameRule(name)
                ELSE IF 2 * Cardinality(numeric) > Cardinality(NonNullSamples(samples))
                THEN "currency"
                ELSE "text"

(***************************************************************************)
(* Properties of the merged result                                         *)
(***************************************************************************)
\* C26: in every merged result, every key of every emitted transaction's raw
\* row is one of the columns of the detected schema; a row with another key
\* is dropped.
C26_RowKeysInSchema ==
    parsed_data # << >> =>
        \A i \in 1..Len(parsed_data[1].transactions) :
            \A j \in 1..Len(parsed_data[1].transactions[i].data) :
                parsed_data[1].transactions[i].data[j].key
                    \in Range(parsed_data[1].transaction_schema.columns)

(***************************************************************************)
(* Properties of validation_errors                                         *)
(***************************************************************************)
\* the pages whose response was returned, so kept in the merge input, and
\* fails validate_response
KeptDespiteFailing(results) ==
    { results[i].page : i \in { j \in 1..Len(results) :
          /\ results[j].returned
          /\ ~validate_response(ExtractorResult(results[j].payload[1],
                                                results[j].page)).is_valid } }

\* C27: once the merge has succeeded, the validation_errors of the document
\* has an entry for page p if and only if the response of page p was kept in
\* the merge input although it failed structural validation; a page that
\* passed it and a page whose extraction raised have none.
C27_EntriesForFailingPages ==
    (pc = "save" /\ parsed_data # << >>) =>
        session.statement.validation_errors = KeptDespiteFailing(page_results)

(***************************************************************************)
(* Properties of validate_response                                         *)
(***************************************************************************)
\* C28: validate_response passes exactly when the four keys
\* customer_details, bank_details, transactions and transaction_columns are
\* in the response; otherwise it fails with one reason per missing key.  (The
\* function only reads its argument: ApplyValidate leaves the response as it
\* was.)
C28_PassIffFourKeys ==
    fn_out # << >> =>
        LET missing == Range(REQUIRED_KEYS) \ fn_in[1].keys
        IN  /\ fn_out[1].is_valid <=> missing = {}
            /\ Len(fn_out[1].errors) = Cardinality(missing)
            /\ Range(fn_out[1].errors) = missing

\* C28: a response with page_info and without bank_details and
\* transaction_columns fails with two reasons
C28_Witness ==
    /\ fn_out # << >>
    /\ fn_in[1].keys = {"customer_details", "transactions", "page_info"}
    /\ ~fn_out[1].is_valid
    /\ fn_out[1].errors = <<"bank_details", "transaction_columns">>

(***************************************************************************)
(* Properties of processing_logs                                           *)
(***************************************************************************)
\* C29: when the page loop has ended, processing_logs holds exactly one
\* record per page of the document, in page order, each with status
\* 'success' or 'error', and as many 'success' records as there are
\* responses for the merge stage.
C29_OneLogPerPage ==
    (LoopEnded /\ EveryPageAttempted) =>
        /\ Len(processing_logs) = doc_pages
        /\ \A i \in 1..Len(processing_logs) :
               /\ processing_logs[i].page = i
               /\ processing_logs[i].status \in {"success", "error"}
        /\ Cardinality({i \in 1..Len(processing_logs) :
                            processing_logs[i].status = "success"}) = Len(llm_responses)

\* C29: a two-page document whose first page raised and whose second page
\* returned, at the end of the loop
C29_Witness ==
    /\ pc = "page_loop"
    /\ page_idx > Len(images)
    /\ doc_pages = 2
    /\ Len(processing_logs) = 2
    /\ processing_logs[1].status = "error"
    /\ processing_logs[2].status = "success"
    /\ Len(llm_responses) = 1

(***************************************************************************)
(* Properties of _call_api_with_retry_async                                *)
(***************************************************************************)
RetryEnded == fn_out # << >> /\ fn_out[1].status \in {"returned", "raised"}

\* at most retry_attempts calls; a return carries the response of the first
\* call that answered, which is the last call issued; a raise follows
\* retry_attempts failed calls
RetrySafe ==
    fn_out # << >> =>
        LET loc == fn_out[1]
            n   == Len(loc.calls)
        IN  /\ n <= fn_in[1].retry_attempts
            /\ loc.status = "returned" =>
                   /\ n >= 1
                   /\ loc.calls[n] = "ok"
                   /\ \A i \in 1..(n - 1) : loc.calls[i] # "ok"
                   /\ loc.response = <<n>>
            /\ loc.status = "raised" =>
                   /\ n = fn_in[1].retry_attempts
                   /\ \A i \in 1..n : loc.calls[i] # "ok"
                   /\ loc.response = << >>

\* C30: _call_api_with_retry_async issues at most retry_attempts API calls
\* for a page, returns the response of the first call that succeeds without
\* calling again, and raises when every attempt failed, whatever the errors
\* were; it always ends, by returning a response or by raising.
C30_RetryBoundedAndEnds == []RetrySafe /\ <>RetryEnded

\* C30: a rate limit, a timeout and a server error in turn: three calls,
\* sleeps of 2, 2 and 8 seconds, then the raise after the loop
C30_Witness ==
    /\ fn_out # << >>
    /\ fn_out[1].calls = <<"rate_limit", "timeout", "server_error">>
    /\ fn_out[1].sleeps = <<2, 2, 8>>
    /\ fn_out[1].status = "raised"

=============================================================================
